---- MODULE Spec2Model ----
(***************************************************************************)
(* Checkpointed ARHMM training of moseq2-model: the startup probe of the   *)
(* three entry points (cli.learn_model, gui.learn_model_command and        *)
(* learn_model_wrapper/get_current_model), the checkpoint save/load pair   *)
(* with its data detach/reattach, and the session hold-out partition.      *)
(***************************************************************************)
EXTENDS Integers, Sequences, FiniteSets, TLC

\* ------------------------------------------------------------------ bounds
MaxSessions == 2      \* session keys are 1..MaxSessions
MaxIter == 3          \* num_iter and stored iteration numbers are <= MaxIter
MaxRuns == 3          \* process starts of one job (1 + restarts after a crash)
MaxKeys == 3          \* sessions of the data set that is partitioned
MaxFolds == 3         \* nfolds is 0..MaxFolds
MaxSeed == 1          \* hold_out_seed is -1..MaxSeed
MaxFrames == 4        \* a session holds 1..MaxFrames frames
MaxCpus == 3          \* --ncpus is 0..MaxCpus

Keys == 1..MaxSessions
NoData == 0           \* s.data = None

\* ------------------------------------------------------------------ state
VARIABLES
    entry,            \* which entry point runs: "cli", "gui" or "wrapper"
    pc,               \* position of the running process
    err,              \* the exception that ended the process ("none" if none)
    disk,             \* the two checkpoint slots: [primary, backup] -> file
    disk0,            \* the slots as they were when this process started
    newest,           \* the slot with the greatest ctime (os.path.getctime)
    train_data,       \* ordered session keys of the training data
    num_iter,         \* requested number of iterations
    checkpoint_freq,  \* checkpoint every N iterations, 0 = None (never)
    use_checkpoint,   \* config_data["use_checkpoint"] (wrapper only)
    arhmm,            \* the live model: its states_list
    itr,              \* starting iteration decided by startup
    cur,              \* iterations completed (loop counter of train_model)
    checkpoint_file,  \* the slot handed to train_model as checkpoint path
    reads,            \* slots load_arhmm_checkpoint was called on in this run
    restored_from,    \* slot the live model was restored from, or "none"
    fell_back,        \* this startup went through the except branch
    runs,             \* process starts so far
    completed,        \* some checkpoint write has completed in this history
    \* -- save_arhmm_checkpoint / copy_model / load_arhmm_checkpoint in steps
    cpc,              \* position inside the save/load pair
    model_obj,        \* states_list of the live model handed to copy_model
    orig,             \* states_list as it was when copy_model was called
    tmp,              \* copy_model's list of detached data
    idx,              \* loop position of copy_model's two loops
    cp,               \* copy_model's deep copy
    dumped,           \* the file joblib.dump wrote
    mdl_dict,         \* the dict load_arhmm_checkpoint returns
    ckpt_dict,        \* the dict handed to save_arhmm_checkpoint: its keys and its model
    \* -- the hold-out partition of cli.learn_model / gui.learn_model_command
    ppc,              \* position inside the partition code
    all_keys,         \* list(data_dict.keys())
    nfolds,           \* --nfolds
    hold_out_req,     \* --hold-out as given on the command line
    hold_out_seed,    \* --hold-out-seed, negative = not set
    hold_out,         \* the hold_out variable (the else branch clears it)
    hold_out_list,    \* held-out keys, or None
    train_list,       \* training keys
    prun,             \* which run of the same command this is
    prior,            \* the lists the first run ended with
    \* -- the time split of gui.learn_model_command / learn_model_wrapper
    split_pc,         \* position inside the split and model-binding code
    split_entry,      \* "gui" or "wrapper"
    data_dict,        \* per session, the frames it holds (a segment lo..hi)
    percent_split,    \* percent of each session kept for validation
    training_data,    \* per session, the leading training segment
    validation_data,  \* per session, the trailing validation segment
    fit_data,         \* the entry point's train_data: what the model gets
    split_model,      \* states_list of the model after startup
    \* -- one run of an entry point, from its first line to its return
    run_pc,           \* position inside the entry point
    run_entry,        \* "cli", "gui" or "wrapper"
    dest_file,        \* the destination path, as its name parts
    writable,         \* os.access(dirname(dest_file), os.W_OK)
    trace,            \* the long-running calls made so far, in order
    run_err,          \* the exception that ended the run ("none" if none)
    ncpus,            \* the worker count (--ncpus, then as clamped)
    ncpus_req,        \* --ncpus as given
    stop,             \* train_model is interrupted in this run
    verbose,          \* the verbose option
    labels,           \* train_model's labels: the session of each sequence
    bundle,           \* what save_dict wrote: None or the export_dict
    notices,          \* messages shown so far (click.echo, print, warnings)
    \* -- util.load_pcs on one input file
    load_pc,          \* "start", "loaded" or "error"
    filename,         \* the input file: its name parts and what it stores
    var_name,         \* the variable asked for
    npcs,             \* number of feature dimensions to load
    load_err,         \* the exception load_pcs raised ("none" if none)
    loaded,           \* the data_dict load_pcs returned: keys and matrices
    \* -- util.dict_to_h5 / util.h5_to_dict on one container
    h5_pc,            \* "start", "written", "error" or "read"
    export_dict,      \* the dict handed to dict_to_h5: its items in order
    h5file,           \* the container: the datasets created so far
    h5_err,           \* the exception dict_to_h5 raised ("none" if none)
    out,              \* the dict h5_to_dict returned
    \* -- gui.learn_model_command: the sessions of group 'n/a' are removed
    flt_pc,           \* "loop", "done" or "error"
    flt_i,            \* the loop index i (counted from 0)
    flt_n,            \* len(all_keys) when the loop started
    flt_keys,         \* all_keys
    flt_dict,         \* the keys of data_dict, in order
    flt_groups,       \* groups, the copy taken before the loop
    meta_groups,      \* data_metadata['groups']
    meta_uuids,       \* data_metadata['uuids']
    label_of,         \* the group label each session was loaded with
    \* -- the per-session log-likelihoods after training
    lk_pc,            \* "start", "scored" or "error"
    lk_entry,         \* "gui", or "util" for the util.py functions
    separate_trans,   \* one transition matrix per group
    sess_groups,      \* data_metadata['groups'], one label per key of all_keys
    train_ll,         \* per training session: the session and group passed
    heldout_ll,       \* per held-out session: the session and group passed
    \* -- the kappa values of a scan
    kp_pc,            \* "start", "returned" or "raised"
    kp_call,          \* "direct": get_kappa_within_range; "scan": get_scan_range_kappas
    min_kappa,        \* min_kappa, None or a number
    max_kappa,        \* max_kappa, None or a number
    n_models,         \* n_models
    nframes,          \* count_frames(data_dict)
    kappas,           \* the list returned
    kp_err            \* the exception raised ("none" if none)

vars == <<entry, pc, err, disk, disk0, newest, train_data, num_iter,
          checkpoint_freq, use_checkpoint, arhmm, itr, cur, checkpoint_file,
          reads, restored_from, fell_back, runs, completed,
          cpc, model_obj, orig, tmp, idx, cp, dumped, mdl_dict, ckpt_dict,
          ppc, all_keys, nfolds, hold_out_req, hold_out_seed, hold_out,
          hold_out_list, train_list, prun, prior,
          split_pc, split_entry, data_dict, percent_split, training_data,
          validation_data, fit_data, split_model,
          run_pc, run_entry, dest_file, writable, trace, run_err,
          ncpus, ncpus_req, stop, verbose, labels, bundle, notices,
          load_pc, filename, var_name, npcs, load_err, loaded,
          h5_pc, export_dict, h5file, h5_err, out,
          flt_pc, flt_i, flt_n, flt_keys, flt_dict, flt_groups, meta_groups,
          meta_uuids, label_of,
          lk_pc, lk_entry, separate_trans, sess_groups, train_ll, heldout_ll,
          kp_pc, kp_call, min_kappa, max_kappa, n_models, nframes, kappas,
          kp_err>>

load_vars == <<load_pc, filename, var_name, npcs, load_err, loaded>>

\* The file formats: load_pcs and the h5 codec.
h5_vars == <<h5_pc, export_dict, h5file, h5_err, out>>

flt_vars == <<flt_pc, flt_i, flt_n, flt_keys, flt_dict, flt_groups,
              meta_groups, meta_uuids, label_of>>

\* Single steps of the entry points that are followed on their own.
lk_vars == <<lk_pc, lk_entry, separate_trans, sess_groups, train_ll,
             heldout_ll>>

kp_vars == <<kp_pc, kp_call, min_kappa, max_kappa, n_models, nframes, kappas,
             kp_err>>

aux_vars == <<flt_vars, lk_vars, kp_vars>>

io_vars == <<load_vars, h5_vars, aux_vars>>

\* The run's variables but the messages.
run_quiet == <<run_pc, run_entry, dest_file, writable, trace, run_err,
               ncpus, ncpus_req, stop, verbose, labels, bundle>>

run_vars == <<run_quiet, notices>>

split_vars == <<split_pc, split_entry, data_dict, percent_split,
                training_data, validation_data, fit_data, split_model>>

\* Everything outside the checkpoint job, the save/load pair and the
\* partition.
rest_vars == <<split_vars, run_vars, io_vars>>

part_vars == <<ppc, all_keys, nfolds, hold_out_req, hold_out_seed, hold_out,
               hold_out_list, train_list, prun, prior>>

copy_vars == <<cpc, model_obj, orig, tmp, idx, cp, dumped, mdl_dict,
               ckpt_dict>>

Slots == {"primary", "backup"}
Entries == {"cli", "gui", "wrapper"}

\* ---------------------------------------------------------- checkpoint files
\* What joblib.load does on a slot: "absent" raises FileNotFoundError, "ok"
\* returns the stored dict, "ValueError" is a damaged file whose
\* deserialization raises ValueError, "OtherError" a damaged file whose
\* deserialization raises anything else (EOFError, UnpicklingError, ...).
CorruptKinds == {"ValueError", "OtherError"}

Absent == [kind |-> "absent", iter |-> 0, model |-> <<>>]

Corrupt(k) == [kind |-> k, iter |-> 0, model |-> <<>>]

Exists(f) == f.kind # "absent"

Restorable(f) == f.kind = "ok"

\* The exception classes the startup code catches.
Caught(f) == f.kind \in {"absent", "ValueError"}

LoadError(f) ==
    CASE f.kind = "absent" -> "FileNotFoundError"
      [] f.kind = "ValueError" -> "ValueError"
      [] f.kind = "OtherError" -> "EOFError"
      [] OTHER -> "none"

\* ------------------------------------------------------------------ model
\* A per-session sub-state: the session it was built from and the data
\* currently attached to it (NoData when detached).
SubState(k, d) == [src |-> k, data |-> d]

\* ARHMM(data_dict=train_data, **model_parameters): one sub-state per
\* session of the data, in the data's order, each holding its session.
ARHMM(td) == [i \in 1..Len(td) |-> SubState(td[i], td[i])]

\* Mutant of Detached: the data is collected but left on the sub-state.
DetachedKeepsData(s) == s

\* util.py:491, s.data = None.
Detached(s) == [s EXCEPT !.data = NoData]

\* util.copy_model's result: the deep copy taken while every s.data is None.
DataLess(states) == [i \in 1..Len(states) |-> Detached(states[i])]

Min(a, b) == IF a < b THEN a ELSE b

\* Mutant of Rebind: the sessions are bound in reverse order.
RebindReversed(states, td) ==
    [i \in 1..Len(states) |->
        IF i <= Len(td) THEN [states[i] EXCEPT !.data = td[Len(td) + 1 - i]]
        ELSE states[i]]

\* The zip loop of load_arhmm_checkpoint: the i-th sub-state gets the i-th
\* value of train_data; zip stops at the shorter of the two.
Rebind(states, td) ==
    [i \in 1..Len(states) |->
        IF i <= Len(td) THEN [states[i] EXCEPT !.data = td[i]] ELSE states[i]]

\* load_arhmm_checkpoint(filename, train_data) on a restorable file.
load_arhmm_checkpoint(f, td) == [model |-> Rebind(f.model, td), iter |-> f.iter]

\* The dict save_arhmm_checkpoint dumps: the data-less copy and the iteration.
save_arhmm_checkpoint(m, i) == [kind |-> "ok", iter |-> i, model |-> DataLess(m)]

\* ------------------------------------------------------------------ inputs
\* Ordered session keys without repetition (the keys of an OrderedDict).
RECURSIVE SeqsOver(_, _)
SeqsOver(S, n) ==
    IF n = 0 THEN {<<>>}
    ELSE LET shorter == SeqsOver(S, n - 1)
         IN  shorter \cup
             {Append(q, k) : q \in {r \in shorter : Len(r) = n - 1},
                             k \in S}

Range(q) == {q[i] : i \in 1..Len(q)}

NoRepeat(q) == Cardinality(Range(q)) = Len(q)

OrderedKeys == {q \in SeqsOver(Keys, MaxSessions) : NoRepeat(q)}

\* A checkpoint an earlier run of this job left behind: the data-less model
\* built over the job's training data, at some iteration.
JobFiles(td) ==
    {Absent} \cup {Corrupt(k) : k \in CorruptKinds}
             \cup {save_arhmm_checkpoint(ARHMM(td), i) : i \in 1..MaxIter}

\* ------------------------------------------------------------------- Init
\* A process start: nothing loaded, nothing decided.
Fresh(d) ==
    /\ pc = "start"
    /\ err = "none"
    /\ disk = d
    /\ disk0 = d
    /\ arhmm = <<>>
    /\ itr = 0
    /\ cur = 0
    /\ checkpoint_file = "primary"
    /\ reads = {}
    /\ restored_from = "none"
    /\ fell_back = FALSE

Inputs ==
    /\ entry \in Entries
    /\ train_data \in {q \in OrderedKeys : Len(q) >= 1}
    /\ num_iter \in 1..MaxIter
    /\ checkpoint_freq \in 0..MaxIter
    /\ use_checkpoint \in BOOLEAN
    /\ newest \in Slots
    /\ runs = 1
    /\ completed = FALSE

\* The dict a caller hands to save_arhmm_checkpoint: under 'model' the live
\* model object, beside it the iteration.
LiveDict == [keys |-> {"model", "iter"}, model |-> "live"]

\* The save/load pair is not being stepped through.
CopyIdle ==
    /\ cpc = "off"
    /\ model_obj = <<>>
    /\ orig = <<>>
    /\ tmp = <<>>
    /\ idx = 0
    /\ cp = <<>>
    /\ dumped = Absent
    /\ mdl_dict = [model |-> <<>>, iter |-> 0]
    /\ ckpt_dict = LiveDict

\* An optional list: None, or a list.
None == [some |-> FALSE, val |-> <<>>]

Some(q) == [some |-> TRUE, val |-> q]

NoPrior == [split |-> <<None, <<>>>>, rebuilt |-> <<None, <<>>>>]

\* The partition code is not being stepped through.
PartIdle ==
    /\ ppc = "off"
    /\ all_keys = <<>>
    /\ nfolds = 0
    /\ hold_out_req = FALSE
    /\ hold_out_seed = -1
    /\ hold_out = FALSE
    /\ hold_out_list = None
    /\ train_list = <<>>
    /\ prun = 1
    /\ prior = NoPrior

\* The time split is not being stepped through.
SplitIdle ==
    /\ split_pc = "off"
    /\ split_entry = "none"
    /\ data_dict = <<>>
    /\ percent_split = 0
    /\ training_data = <<>>
    /\ validation_data = <<>>
    /\ fit_data = <<>>
    /\ split_model = <<>>

\* No entry point is being stepped through.
RunIdle ==
    /\ run_pc = "off"
    /\ run_entry = "none"
    /\ dest_file = <<>>
    /\ writable = TRUE
    /\ trace = <<>>
    /\ run_err = "none"
    /\ ncpus = 0
    /\ ncpus_req = 0
    /\ stop = FALSE
    /\ verbose = FALSE
    /\ labels = <<>>
    /\ bundle = [saved |-> FALSE, keys |-> <<>>, labels |-> <<>>]
    /\ notices = {}

\* load_pcs is not being applied.
LoadIdle ==
    /\ load_pc = "off"
    /\ filename = <<>>
    /\ var_name = ""
    /\ npcs = 0
    /\ load_err = "none"
    /\ loaded = <<>>

\* The h5 codec is not being applied.
H5Idle ==
    /\ h5_pc = "off"
    /\ export_dict = <<>>
    /\ h5file = {}
    /\ h5_err = "none"
    /\ out = <<>>

\* The group filter is not being stepped through.
FilterIdle ==
    /\ flt_pc = "off"
    /\ flt_i = 0
    /\ flt_n = 0
    /\ flt_keys = <<>>
    /\ flt_dict = <<>>
    /\ flt_groups = <<>>
    /\ meta_groups = <<>>
    /\ meta_uuids = <<>>
    /\ label_of = <<>>

\* No log-likelihood is being computed.
LikesIdle ==
    /\ lk_pc = "off"
    /\ lk_entry = "none"
    /\ separate_trans = FALSE
    /\ sess_groups = <<>>
    /\ train_ll = <<>>
    /\ heldout_ll = <<>>

\* No kappa list is being computed.
KappaIdle ==
    /\ kp_pc = "off"
    /\ kp_call = "none"
    /\ min_kappa = None
    /\ max_kappa = None
    /\ n_models = 0
    /\ nframes = 0
    /\ kappas = <<>>
    /\ kp_err = "none"

AuxIdle == FilterIdle /\ LikesIdle /\ KappaIdle

IoIdle == LoadIdle /\ H5Idle /\ AuxIdle

RestIdle == SplitIdle /\ RunIdle /\ IoIdle

\* Everything outside the job, the save/load pair and the partition, but
\* the messages.
quiet_vars == <<split_vars, run_quiet, io_vars>>

\* click.echo / print / flush_print / warnings.warn of the given messages.
Emit(msgs) == notices' = notices \cup msgs

\* Any content of the two slots: left by earlier runs or damaged from outside.
Init ==
    /\ Inputs
    /\ CopyIdle
    /\ PartIdle
    /\ RestIdle
    /\ \E p \in JobFiles(train_data), b \in JobFiles(train_data) :
          Fresh([primary |-> p, backup |-> b])

\* A new job of one of the two entry points that name a primary and a
\* backup slot: no checkpoint exists yet.
InitJob ==
    /\ Inputs
    /\ CopyIdle
    /\ PartIdle
    /\ RestIdle
    /\ entry \in {"cli", "gui"}
    /\ Fresh([primary |-> Absent, backup |-> Absent])

inputs == <<entry, train_data, num_iter, checkpoint_freq, use_checkpoint>>

ghosts == <<runs, completed, disk0>>

\* ------------------------------------------------------- cli.learn_model
\* cli.py:83 makes dest_file a pathlib.Path; line 184 evaluates
\* (dest_file.parent / dest_file.stem) + '-checkpoint.arhmm', a Path plus a
\* str, which raises TypeError before the checkpoint probe of line 188.
CliCheckpointPaths ==
    /\ entry = "cli"
    /\ pc = "start"
    /\ pc' = "error"
    /\ err' = "TypeError"
    /\ UNCHANGED <<rest_vars, inputs, copy_vars, part_vars, ghosts, disk, newest, arhmm, itr, cur,
                   checkpoint_file, reads, restored_from, fell_back>>

\* ------------------------------------------------ gui.learn_model_command
\* The checkpoint dict is popped into the live model and the start iteration.
Resume(slot, f) ==
    LET checkpoint == load_arhmm_checkpoint(f, train_data)
    IN  /\ arhmm' = checkpoint.model
        /\ itr' = checkpoint.iter
        /\ restored_from' = slot
        /\ pc' = "ready"
        /\ err' = "none"

\* gui.py:213-215: no slot exists, construct a new model at iteration 0.
GuiFresh ==
    /\ entry = "gui"
    /\ pc = "start"
    /\ ~(Exists(disk.primary) \/ Exists(disk.backup))
    /\ arhmm' = ARHMM(train_data)
    /\ itr' = 0
    /\ pc' = "ready"
    /\ UNCHANGED <<rest_vars, inputs, copy_vars, part_vars, ghosts, disk, newest, err, cur, checkpoint_file,
                   reads, restored_from, fell_back>>

\* gui.py:201-205, 210-212: some slot exists, try the primary.
GuiLoadPrimary ==
    /\ entry = "gui"
    /\ pc = "start"
    /\ Exists(disk.primary) \/ Exists(disk.backup)
    /\ reads' = reads \cup {"primary"}
    /\ IF Restorable(disk.primary)
       THEN /\ Resume("primary", disk.primary)
            /\ Emit({"Loading Checkpoint", "On iteration"})
            /\ UNCHANGED fell_back
       ELSE IF Caught(disk.primary)
       THEN /\ pc' = "except"
            /\ fell_back' = TRUE
            /\ Emit({"Loading Checkpoint"})
            /\ UNCHANGED <<arhmm, itr, restored_from, err>>
       ELSE /\ pc' = "error"
            /\ err' = LoadError(disk.primary)
            /\ Emit({"Loading Checkpoint"})
            /\ UNCHANGED <<arhmm, itr, restored_from, fell_back>>
    /\ UNCHANGED <<quiet_vars, inputs, copy_vars, part_vars, ghosts, disk, newest, cur, checkpoint_file>>

\* gui.py:207-208: the path the except branch loads from.
GuiFallbackPath(d, path) == IF Exists(d.backup) THEN "backup" ELSE path

\* gui.py:205-212: the except branch; nothing is removed, the checkpoint
\* path becomes the backup path when the backup exists, and any exception
\* of this second load leaves the function.
GuiLoadFallback ==
    /\ entry = "gui"
    /\ pc = "except"
    /\ LET path == GuiFallbackPath(disk, checkpoint_file)
       IN  /\ checkpoint_file' = path
           /\ reads' = reads \cup {path}
           /\ IF Restorable(disk[path])
              THEN /\ Resume(path, disk[path])
                   /\ Emit({"Loading original checkpoint failed, checking backup",
                            "On iteration"})
              ELSE /\ pc' = "error"
                   /\ err' = LoadError(disk[path])
                   /\ Emit({"Loading original checkpoint failed, checking backup"})
                   /\ UNCHANGED <<arhmm, itr, restored_from>>
    /\ UNCHANGED <<quiet_vars, inputs, copy_vars, part_vars, ghosts, disk, newest, cur, fell_back>>

\* --------------------------------- learn_model_wrapper / get_current_model
\* wrappers.py:125-126: the checkpoints the glob finds.
all_checkpoints == {s \in Slots : Exists(disk[s])}

\* util.py:125: max(all_checkpoints, key=getctime).
latest_checkpoint ==
    IF newest \in all_checkpoints THEN newest
    ELSE CHOOSE s \in all_checkpoints : TRUE

\* util.py:120-142, the whole function.
GetCurrentModel ==
    /\ entry = "wrapper"
    /\ pc = "start"
    /\ IF use_checkpoint /\ all_checkpoints # {}
       THEN LET f == disk[latest_checkpoint]
            IN  /\ reads' = reads \cup {latest_checkpoint}
                /\ IF Restorable(f)
                   THEN /\ Resume(latest_checkpoint, f)
                        /\ Emit({"Loading Checkpoint", "On iteration"})
                        /\ UNCHANGED fell_back
                   ELSE IF Caught(f)
                   THEN /\ arhmm' = ARHMM(train_data)
                        /\ itr' = 0
                        /\ fell_back' = TRUE
                        /\ pc' = "ready"
                        /\ Emit({"Loading Checkpoint",
                                 "Loading original checkpoint failed, creating new ARHMM"})
                        /\ UNCHANGED <<restored_from, err>>
                   ELSE /\ pc' = "error"
                        /\ err' = LoadError(f)
                        /\ Emit({"Loading Checkpoint"})
                        /\ UNCHANGED <<arhmm, itr, restored_from, fell_back>>
       ELSE /\ arhmm' = ARHMM(train_data)
            /\ itr' = 0
            /\ pc' = "ready"
            /\ Emit(IF use_checkpoint
                    THEN {"No matching checkpoints found, creating new ARHMM"}
                    ELSE {})
            /\ UNCHANGED <<reads, restored_from, err, fell_back>>
    /\ UNCHANGED <<quiet_vars, inputs, copy_vars, part_vars, ghosts, disk, newest, cur, checkpoint_file>>

\* ------------------------------------------------------------ train_model
\* The slot train_model keeps the previous snapshot in while it rewrites
\* the checkpoint path it was handed; "none": outside the two probed slots.
Sibling(path) == IF path = "primary" THEN "backup" ELSE "none"

\* train_model(model=arhmm, start=itr, ...): the loop starts at `start`.
TrainModelEnter ==
    /\ pc = "ready"
    /\ pc' = "train"
    /\ cur' = itr
    /\ UNCHANGED <<rest_vars, inputs, copy_vars, part_vars, ghosts, disk, newest, err, arhmm, itr,
                   checkpoint_file, reads, restored_from, fell_back>>

\* One resampling iteration; every checkpoint_freq iterations a checkpoint
\* is written before the next iteration begins.
Resample ==
    /\ pc = "train"
    /\ cur < num_iter
    /\ cur' = cur + 1
    /\ pc' = IF checkpoint_freq > 0 /\ (cur + 1) % checkpoint_freq = 0
             THEN "rotate" ELSE "train"
    /\ UNCHANGED <<rest_vars, inputs, copy_vars, part_vars, ghosts, disk, newest, err, arhmm, itr,
                   checkpoint_file, reads, restored_from, fell_back>>

\* The backup is updated before the checkpoint path is rewritten: the copy
\* starts (the sibling is a partial file until it ends).
RotateBegin ==
    /\ pc = "rotate"
    /\ IF Sibling(checkpoint_file) # "none" /\ Exists(disk[checkpoint_file])
       THEN /\ \E k \in CorruptKinds :
                 disk' = [disk EXCEPT ![Sibling(checkpoint_file)] = Corrupt(k)]
            /\ newest' = Sibling(checkpoint_file)
            /\ pc' = "rotating"
       ELSE /\ pc' = "write"
            /\ UNCHANGED <<disk, newest>>
    /\ UNCHANGED <<rest_vars, inputs, copy_vars, part_vars, ghosts, err, arhmm, itr, cur, checkpoint_file,
                   reads, restored_from, fell_back>>

RotateEnd ==
    /\ pc = "rotating"
    /\ disk' = [disk EXCEPT ![Sibling(checkpoint_file)] = disk[checkpoint_file]]
    /\ pc' = "write"
    /\ UNCHANGED <<rest_vars, inputs, copy_vars, part_vars, ghosts, newest, err, arhmm, itr, cur,
                   checkpoint_file, reads, restored_from, fell_back>>

\* util.py:334: joblib.dump(arhmm, filename) opens the checkpoint path itself
\* for writing; until the dump ends the file is a partial one.
SaveBegin ==
    /\ pc = "write"
    /\ \E k \in CorruptKinds :
          disk' = [disk EXCEPT ![checkpoint_file] = Corrupt(k)]
    /\ newest' = checkpoint_file
    /\ pc' = "writing"
    /\ UNCHANGED <<rest_vars, inputs, copy_vars, part_vars, ghosts, err, arhmm, itr, cur, checkpoint_file,
                   reads, restored_from, fell_back>>

\* util.py:329-334 completed: the data-less copy and the iteration are on disk.
SaveEnd ==
    /\ pc = "writing"
    /\ disk' = [disk EXCEPT ![checkpoint_file] = save_arhmm_checkpoint(arhmm, cur)]
    /\ completed' = TRUE
    /\ pc' = "train"
    /\ UNCHANGED <<rest_vars, inputs, copy_vars, part_vars, runs, disk0, newest, err, arhmm, itr, cur,
                   checkpoint_file, reads, restored_from, fell_back>>

TrainModelReturn ==
    /\ pc = "train"
    /\ cur >= num_iter
    /\ pc' = "done"
    /\ UNCHANGED <<rest_vars, inputs, copy_vars, part_vars, ghosts, disk, newest, err, arhmm, itr, cur,
                   checkpoint_file, reads, restored_from, fell_back>>

\* The process is killed (preemption, power loss) while training: memory is
\* lost, the files stay as they are.
InTraining == pc \in {"train", "rotate", "rotating", "write", "writing"}

Crash ==
    /\ InTraining
    /\ pc' = "crashed"
    /\ UNCHANGED <<rest_vars, inputs, copy_vars, part_vars, ghosts, disk, newest, err, arhmm, itr, cur,
                   checkpoint_file, reads, restored_from, fell_back>>

\* The same job is started again on the same input.
Restart ==
    /\ pc = "crashed"
    /\ runs < MaxRuns
    /\ runs' = runs + 1
    /\ pc' = "start"
    /\ err' = "none"
    /\ disk0' = disk
    /\ arhmm' = <<>>
    /\ itr' = 0
    /\ cur' = 0
    /\ checkpoint_file' = "primary"
    /\ reads' = {}
    /\ restored_from' = "none"
    /\ fell_back' = FALSE
    /\ UNCHANGED <<rest_vars, inputs, copy_vars, part_vars, completed, disk, newest>>

Startup ==
    \/ CliCheckpointPaths
    \/ GuiFresh
    \/ GuiLoadPrimary
    \/ GuiLoadFallback

Next ==
    \/ Startup
    \/ GetCurrentModel
    \/ TrainModelEnter
    \/ Resample
    \/ RotateBegin
    \/ RotateEnd
    \/ SaveBegin
    \/ SaveEnd
    \/ TrainModelReturn
    \/ Crash
    \/ Restart

\* Startup on any content of the two slots.
Spec == Init /\ [][Next]_vars

NextJob ==
    \/ Startup
    \/ TrainModelEnter
    \/ Resample
    \/ RotateBegin
    \/ RotateEnd
    \/ SaveBegin
    \/ SaveEnd
    \/ TrainModelReturn
    \/ Crash
    \/ Restart

\* A job from its first start, with crashes and restarts.
SpecJob == InitJob /\ [][NextJob]_vars

TypeOK ==
    /\ pc \in {"start", "except", "ready", "train", "rotate", "rotating",
               "write", "writing", "done", "error", "crashed"}
    /\ checkpoint_file \in Slots
    /\ cur \in 0..MaxIter
    /\ itr \in 0..MaxIter
    /\ runs \in 1..MaxRuns

\* ------------------------------------------------------- startup properties
\* Startup of the running process has ended (in a model or in an error).
StartupOver == pc \notin {"start", "except"}

SlotExists == Exists(disk0.primary) \/ Exists(disk0.backup)

\* C1: in cli.learn_model and gui.learn_model_command, when a slot exists,
\* restoring the primary raises FileNotFoundError or ValueError and the
\* backup is restorable, startup restores from the backup and training
\* starts at the iteration stored in the backup.
C1_BackupFallback ==
    (/\ entry \in {"cli", "gui"}
     /\ SlotExists
     /\ Caught(disk0.primary)
     /\ Restorable(disk0.backup)
     /\ StartupOver)
    => (/\ err = "none"
        /\ restored_from = "backup"
        /\ itr = disk0.backup.iter)

\* C1 for gui.learn_model_command alone (the entry point whose probe runs).
C1_GuiBackupFallback == entry = "gui" => C1_BackupFallback

C1_GuiWitness ==
    /\ entry = "gui"
    /\ disk0.primary.kind = "ValueError"
    /\ fell_back
    /\ pc = "train"
    /\ restored_from = "backup"
    /\ itr = 2

\* C2: in every startup path that falls back from a failed primary restore
\* to the backup, the corrupt primary file no longer exists once the
\* fallback has completed.
C2_CorruptPrimaryRemoved ==
    (/\ entry \in {"cli", "gui"}
     /\ fell_back
     /\ restored_from = "backup"
     /\ pc = "ready")
    => ~Exists(disk.primary)

\* C3: when a checkpoint exists but no existing checkpoint can be restored,
\* startup ends in an error and training never begins; no fresh model at
\* iteration 0 is substituted (get_current_model: with use_checkpoint set).
C3_UnreadableIsFatal ==
    (/\ SlotExists
     /\ ~Restorable(disk0.primary)
     /\ ~Restorable(disk0.backup)
     /\ entry = "wrapper" => use_checkpoint
     /\ StartupOver)
    => pc = "error"

\* C3 for the two entry points that probe the slots themselves.
C3_CliGuiUnreadableIsFatal == entry \in {"cli", "gui"} => C3_UnreadableIsFatal

\* C4: when no slot exists (get_current_model: when use_checkpoint is false
\* or the checkpoint list is empty), startup constructs a new model over the
\* training data, the starting iteration is 0 and no checkpoint file is read.
NoCheckpointToUse ==
    IF entry = "wrapper" THEN ~use_checkpoint \/ ~SlotExists ELSE ~SlotExists

C4_FreshStart ==
    (NoCheckpointToUse /\ StartupOver)
    => (/\ err = "none"
        /\ arhmm = ARHMM(train_data)
        /\ itr = 0
        /\ reads = {})

\* C4 for gui.learn_model_command and get_current_model.
C4_GuiWrapperFreshStart == entry \in {"gui", "wrapper"} => C4_FreshStart

C4_GuiWrapperWitness ==
    /\ entry = "wrapper"
    /\ ~use_checkpoint
    /\ Restorable(disk0.primary)
    /\ pc = "ready"

C6_OneSlotIntact ==
    completed => (Restorable(disk.primary) \/ Restorable(disk.backup))

\* ------------------- save_arhmm_checkpoint, copy_model, load_arhmm_checkpoint
\* The entry points and train_model are not running.
MainIdle ==
    /\ entry = "none"
    /\ pc = "off"
    /\ err = "none"
    /\ disk = [primary |-> Absent, backup |-> Absent]
    /\ disk0 = [primary |-> Absent, backup |-> Absent]
    /\ newest = "primary"
    /\ num_iter = 0
    /\ checkpoint_freq = 0
    /\ use_checkpoint = FALSE
    /\ arhmm = <<>>
    /\ itr = 0
    /\ cur = 0
    /\ checkpoint_file = "primary"
    /\ reads = {}
    /\ restored_from = "none"
    /\ fell_back = FALSE
    /\ runs = 1
    /\ completed = FALSE

main_vars == <<entry, pc, err, disk, disk0, newest, train_data, num_iter,
               checkpoint_freq, use_checkpoint, arhmm, itr, cur,
               checkpoint_file, reads, restored_from, fell_back, runs,
               completed>>

\* A live model over any sessions is saved, and the file is loaded again
\* with any training data (as many sessions, fewer or more).
InitCopy ==
    /\ MainIdle
    /\ PartIdle
    /\ RestIdle
    /\ train_data \in OrderedKeys
    /\ cpc = "idle"
    /\ \E q \in OrderedKeys : model_obj = ARHMM(q)
    /\ orig = <<>>
    /\ tmp = <<>>
    /\ idx = 0
    /\ cp = <<>>
    /\ dumped = Absent
    /\ mdl_dict = [model |-> <<>>, iter |-> 0]
    /\ ckpt_dict = LiveDict

\* The model object the dict holds under 'model'.
ModelOf(d) == IF d.model = "live" THEN model_obj ELSE cp

\* util.py:498, s.data = t.
Reattached(s, t) == [s EXCEPT !.data = t]

\* util.py:329-330 and 486: the model is popped from the dict and handed to
\* copy_model.
SaveArhmmCheckpointCall ==
    /\ cpc = "idle"
    /\ cpc' = "detach"
    /\ orig' = model_obj
    /\ tmp' = <<>>
    /\ idx' = 1
    /\ ckpt_dict' = [keys |-> ckpt_dict.keys \ {"model"}, model |-> "none"]
    /\ UNCHANGED <<rest_vars, main_vars, part_vars, model_obj, cp, dumped, mdl_dict>>

\* util.py:489-491, one pass of the first loop.
CopyModelDetach ==
    /\ cpc = "detach"
    /\ idx <= Len(model_obj)
    /\ tmp' = Append(tmp, model_obj[idx].data)
    /\ model_obj' = [model_obj EXCEPT ![idx] = Detached(@)]
    /\ idx' = idx + 1
    /\ UNCHANGED <<rest_vars, main_vars, part_vars, cpc, orig, cp, dumped, mdl_dict,
                   ckpt_dict>>

\* util.py:493, cp = deepcopy(model_obj).
CopyModelDeepcopy ==
    /\ cpc = "detach"
    /\ idx > Len(model_obj)
    /\ cp' = model_obj
    /\ cpc' = "reattach"
    /\ idx' = 1
    /\ UNCHANGED <<rest_vars, main_vars, part_vars, model_obj, orig, tmp, dumped, mdl_dict,
                   ckpt_dict>>

\* util.py:493: deepcopy raises (MemoryError, RecursionError, an object that
\* cannot be copied); nothing catches it, the second loop is not run.
CopyModelDeepcopyRaises ==
    /\ cpc = "detach"
    /\ idx > Len(model_obj)
    /\ cpc' = "raised"
    /\ UNCHANGED <<rest_vars, main_vars, part_vars, model_obj, orig, tmp, idx, cp,
                   dumped, mdl_dict, ckpt_dict>>

\* util.py:497-498, one pass of the second loop (a zip of the two lists).
CopyModelReattach ==
    /\ cpc = "reattach"
    /\ idx <= Min(Len(model_obj), Len(tmp))
    /\ model_obj' = [model_obj EXCEPT ![idx] = Reattached(@, tmp[idx])]
    /\ idx' = idx + 1
    /\ UNCHANGED <<rest_vars, main_vars, part_vars, cpc, orig, tmp, cp, dumped, mdl_dict,
                   ckpt_dict>>

\* util.py:500 and 330: copy_model returns, the copy goes into the dict.
CopyModelReturn ==
    /\ cpc = "reattach"
    /\ idx > Min(Len(model_obj), Len(tmp))
    /\ cpc' = "dump"
    /\ ckpt_dict' = [keys |-> ckpt_dict.keys \cup {"model"}, model |-> "copy"]
    /\ UNCHANGED <<rest_vars, main_vars, part_vars, model_obj, orig, tmp, idx, cp, dumped, mdl_dict>>

\* util.py:334: the dict with the copy and its iteration number is dumped.
SaveArhmmCheckpointDump ==
    /\ cpc = "dump"
    /\ \E i \in 0..MaxIter :
          dumped' = [kind |-> "ok", iter |-> i, model |-> ModelOf(ckpt_dict)]
    /\ cpc' = "saved"
    /\ UNCHANGED <<rest_vars, main_vars, part_vars, model_obj, orig, tmp, idx, cp, mdl_dict,
                   ckpt_dict>>

\* util.py:304-311: the file is loaded and the training data bound to it.
LoadArhmmCheckpoint ==
    /\ cpc = "saved"
    /\ mdl_dict' = load_arhmm_checkpoint(dumped, train_data)
    /\ cpc' = "loaded"
    /\ UNCHANGED <<rest_vars, main_vars, part_vars, model_obj, orig, tmp, idx, cp, dumped,
                   ckpt_dict>>

NextCopy ==
    \/ SaveArhmmCheckpointCall
    \/ CopyModelDetach
    \/ CopyModelDeepcopy
    \/ CopyModelDeepcopyRaises
    \/ CopyModelReattach
    \/ CopyModelReturn
    \/ SaveArhmmCheckpointDump
    \/ LoadArhmmCheckpoint

\* One save of a live model followed by one load of the file.
SpecCopy == InitCopy /\ [][NextCopy]_vars

AllDetached(states) == \A i \in 1..Len(states) : states[i].data = NoData

AllBound(states) == \A i \in 1..Len(states) : states[i].data # NoData

\* C7: copy_model returns a copy in which every sub-state has empty data;
\* when it returns, every sub-state of the live model holds the data it held
\* before the call, in the same order; the snapshot save_arhmm_checkpoint
\* writes therefore contains no training data.
C7_DataLessSnapshot ==
    /\ cpc \in {"dump", "saved", "loaded"}
       => (/\ Len(cp) = Len(orig)
           /\ AllDetached(cp)
           /\ model_obj = orig)
    /\ cpc \in {"saved", "loaded"} => AllDetached(dumped.model)

C7_Witness ==
    /\ cpc = "saved"
    /\ Len(orig) >= 2
    /\ AllBound(orig)
    /\ Len(dumped.model) = Len(orig)

\* C8: after load_arhmm_checkpoint(filename, train_data) returns, every
\* sub-state of the restored model has data bound to it, for any train_data
\* (also with fewer or more sessions than the model has sub-states).
C8_RestoreBindsEverySubState ==
    cpc = "loaded" => AllBound(mdl_dict.model)

\* C8 when train_data has at least as many sessions as the model sub-states.
C8_EnoughSessions ==
    (cpc = "loaded" /\ Len(train_data) >= Len(mdl_dict.model))
    => AllBound(mdl_dict.model)

\* ------------------------------------------------- the hold-out partition
\* cli.py:112-129 and 166-175; gui.py:109-127 and 164-174 are the same code.
nkeys == Len(all_keys)

\* random.Random(seed).sample(list(range(n)), n): a permutation of 0..n-1
\* fixed by the seed (the values CPython's generator gives, seeds 0..3,
\* n = 0..5).
SeededSample(seed, n) ==
    LET table ==
          << << <<>>, <<0>>, <<1, 0>>, <<1, 2, 0>>, <<3, 1, 0, 2>>, <<3, 4, 0, 1, 2>> >>,
             << <<>>, <<0>>, <<0, 1>>, <<0, 2, 1>>, <<1, 2, 0, 3>>, <<1, 0, 4, 3, 2>> >>,
             << <<>>, <<0>>, <<0, 1>>, <<0, 2, 1>>, <<0, 3, 2, 1>>, <<0, 4, 3, 1, 2>> >>,
             << <<>>, <<0>>, <<0, 1>>, <<0, 2, 1>>, <<1, 2, 0, 3>>, <<1, 4, 3, 2, 0>> >> >>
    IN  table[seed + 1][n + 1]

\* random.sample(list(range(n)), n) on the module's generator, seeded from
\* system entropy: any permutation of 0..n-1.
Shuffles(n) ==
    {q \in SeqsOver(0..(n - 1), n) : Len(q) = n /\ NoRepeat(q)}

\* np.array_split(ary, sections): Len % sections pieces of Len \div sections
\* + 1 elements, then the rest with Len \div sections elements.
array_split(ary, sections) ==
    LET each == Len(ary) \div sections
        extras == Len(ary) % sections
        size(j) == each + (IF j <= extras THEN 1 ELSE 0)
        start(j) == (j - 1) * each + Min(j - 1, extras)
    IN  [j \in 1..sections |-> SubSeq(ary, start(j) + 1, start(j) + size(j))]

\* Mutant of Feasible: every fold count is taken for feasible.
FeasibleAlways(n, k) == TRUE

\* cli.py:112, nkeys >= nfolds.
Feasible(n, k) == n >= k

\* Mutant of Seeded: seed 0 is taken for "not set".
SeededPositive(seed) == seed > 0

\* cli.py:115, the seed is used when it is not negative.
Seeded(seed) == seed >= 0

\* cli.py:122, [all_keys[k] for k in splits[0]] (k counts from 0).
HeldOut(keys, split0) == [i \in 1..Len(split0) |-> keys[split0[i] + 1]]

\* Mutant of TrainOf: the held-out keys are not filtered out.
TrainOfAll(keys, held) == keys

\* cli.py:123, [k for k in all_keys if k not in hold_out_list].
TrainOf(keys, held) == SelectSeq(keys, LAMBDA k : k \notin Range(held))

\* cli.py:167-170, the keys of the mapping rebuilt in all_keys order.
KeysIn(keys, list) == SelectSeq(keys, LAMBDA k : k \in Range(list))

Record(stage, h, t) ==
    prior' = IF prun = 1 THEN [prior EXCEPT ![stage] = <<h, t>>] ELSE prior

\* cli.py:116-125 on a sampled permutation.
HoldOutFold(sample) ==
    LET splits == array_split(sample, nfolds)
        held == HeldOut(all_keys, splits[1])
    IN  /\ hold_out_list' = Some(held)
        /\ train_list' = TrainOf(all_keys, held)
        /\ Record("split", Some(held), TrainOf(all_keys, held))
        /\ ppc' = "split"
        /\ UNCHANGED <<all_keys, nfolds, hold_out_req, hold_out_seed,
                       hold_out, prun>>

\* cli.py:112-117, 122-125.
PartitionSeeded ==
    /\ ppc = "start"
    /\ hold_out /\ Feasible(nkeys, nfolds)
    /\ nfolds > 0
    /\ Seeded(hold_out_seed)
    /\ HoldOutFold(SeededSample(hold_out_seed, nkeys))
    /\ Emit({"Will hold out 1 fold", "Settings random seed", "Holding out",
             "Training on"})
    /\ UNCHANGED <<quiet_vars, main_vars, copy_vars>>

\* cli.py:112-114, 118-125.
PartitionUnseeded ==
    /\ ppc = "start"
    /\ hold_out /\ Feasible(nkeys, nfolds)
    /\ nfolds > 0
    /\ ~Seeded(hold_out_seed)
    /\ \E sample \in Shuffles(nkeys) : HoldOutFold(sample)
    /\ Emit({"Will hold out 1 fold", "Random seed not set", "Holding out",
             "Training on"})
    /\ UNCHANGED <<quiet_vars, main_vars, copy_vars>>

\* cli.py:117/120 with nfolds <= 0: np.array_split raises ValueError.
PartitionRaises ==
    /\ ppc = "start"
    /\ hold_out /\ Feasible(nkeys, nfolds)
    /\ nfolds <= 0
    /\ ppc' = "error"
    /\ Emit({"Will hold out 1 fold",
             IF Seeded(hold_out_seed) THEN "Settings random seed"
             ELSE "Random seed not set"})
    /\ UNCHANGED <<quiet_vars, main_vars, copy_vars, all_keys, nfolds, hold_out_req,
                   hold_out_seed, hold_out, hold_out_list, train_list, prun,
                   prior>>

\* cli.py:126-129, the else branch.
PartitionDisabled ==
    /\ ppc = "start"
    /\ ~(hold_out /\ Feasible(nkeys, nfolds))
    /\ hold_out' = FALSE
    /\ hold_out_list' = None
    /\ train_list' = all_keys
    /\ Record("split", None, all_keys)
    /\ ppc' = "split"
    /\ UNCHANGED <<rest_vars, main_vars, copy_vars, all_keys, nfolds, hold_out_req,
                   hold_out_seed, prun>>

\* cli.py:166-175, the lists are rebuilt from the train/test mappings.
Rebuild ==
    /\ ppc = "split"
    /\ run_pc \in {"off", "clamped"}
    /\ LET t == IF hold_out THEN KeysIn(all_keys, train_list) ELSE all_keys
           h == IF hold_out THEN Some(KeysIn(all_keys, hold_out_list.val))
                ELSE hold_out_list
       IN  /\ train_list' = t
           /\ hold_out_list' = h
           /\ Record("rebuilt", h, t)
    /\ ppc' = "rebuilt"
    /\ UNCHANGED <<rest_vars, main_vars, copy_vars, all_keys, nfolds, hold_out_req,
                   hold_out_seed, hold_out, prun>>

\* The same command is run a second time on the same input.
RunAgain ==
    /\ ppc = "rebuilt"
    /\ prun = 1
    /\ prun' = 2
    /\ ppc' = "start"
    /\ hold_out' = hold_out_req
    /\ hold_out_list' = None
    /\ train_list' = <<>>
    /\ UNCHANGED <<rest_vars, main_vars, copy_vars, all_keys, nfolds, hold_out_req,
                   hold_out_seed, prior>>

InitPartition ==
    /\ MainIdle
    /\ train_data = <<>>
    /\ CopyIdle
    /\ RestIdle
    /\ ppc = "start"
    /\ all_keys \in {q \in SeqsOver(1..MaxKeys, MaxKeys) : NoRepeat(q)}
    /\ nfolds \in 0..MaxFolds
    /\ hold_out_req \in BOOLEAN
    /\ hold_out = hold_out_req
    /\ hold_out_seed \in (-1)..MaxSeed
    /\ hold_out_list = None
    /\ train_list = <<>>
    /\ prun = 1
    /\ prior = NoPrior

NextPartition ==
    \/ PartitionSeeded
    \/ PartitionUnseeded
    \/ PartitionRaises
    \/ PartitionDisabled
    \/ Rebuild
    \/ RunAgain

\* The partition of one command line, run twice.
SpecPartition == InitPartition /\ [][NextPartition]_vars

\* C9: whenever hold-out is requested and there are at least nfolds
\* sessions, train_list and hold_out_list are disjoint and together hold
\* exactly the session keys, before and after the lists are rebuilt.
C9_PartitionComplete ==
    (hold_out_req /\ nkeys >= nfolds /\ ppc \in {"split", "rebuilt"})
    => (/\ hold_out_list.some
        /\ Range(train_list) \cap Range(hold_out_list.val) = {}
        /\ Range(train_list) \cup Range(hold_out_list.val) = Range(all_keys))

C9_Witness ==
    /\ ppc = "rebuilt"
    /\ hold_out_req
    /\ hold_out_seed < 0
    /\ nkeys = 3
    /\ nfolds = 2
    /\ Len(hold_out_list.val) = 2
    /\ Len(train_list) = 1

\* C10: two runs with the same ordered session keys, the same nfolds and the
\* same non-negative seed produce identical hold_out_list and train_list
\* (same members, same order).
C10_SeededReproducible ==
    (prun = 2 /\ hold_out_seed >= 0)
    => (/\ ppc = "split" => <<hold_out_list, train_list>> = prior.split
        /\ ppc = "rebuilt" => <<hold_out_list, train_list>> = prior.rebuilt)

C10_Witness ==
    /\ prun = 2
    /\ ppc = "rebuilt"
    /\ hold_out_seed = 0
    /\ hold_out
    /\ nkeys = 3
    /\ nfolds = 3
    /\ Len(hold_out_list.val) = 1
    /\ <<hold_out_list, train_list>> = prior.rebuilt

\* Without a seed the second run may hold out other sessions.
C10_UnseededReproducible ==
    prun = 2
    => (ppc = "rebuilt" => <<hold_out_list, train_list>> = prior.rebuilt)

\* C11: when hold-out is requested but there are fewer sessions than nfolds,
\* the partition step does not raise; hold-out is switched off,
\* hold_out_list is absent and train_list is all session keys, at the
\* partition and after the lists are rebuilt.
C11_InfeasibleFoldsDegrade ==
    (hold_out_req /\ nkeys < nfolds)
    => (/\ ppc # "error"
        /\ ppc \in {"split", "rebuilt"}
           => (/\ ~hold_out
               /\ hold_out_list = None
               /\ train_list = all_keys))

C11_Witness ==
    /\ ppc = "rebuilt"
    /\ hold_out_req
    /\ nkeys = 2
    /\ nfolds = 3
    /\ ~hold_out
    /\ train_list = all_keys

\* ------------------------------------------------------- the time split
\* gui.py:170-215 and wrappers.py:114-131. A session's data is the segment
\* of frames lo..hi it holds.
Segment(lo, hi) == [lo |-> lo, hi |-> hi]

FramesOf(seg) == seg.lo..seg.hi

\* The values percent_split takes here.
PercentSplits == {0, 20, 50}

\* sklearn's train_test_split(v, test_size=p/100, shuffle=False): the
\* number of test samples is ceil(test_size * n), the rest is the train
\* part.
n_test(n, p) == (p * n + 99) \div 100

n_train(n, p) == n - n_test(n, p)

\* train_test_split raises ValueError for a test_size outside (0, 1) and
\* for an empty train part.
SplitRaises(d, p) ==
    \/ p <= 0
    \/ p >= 100
    \/ \E i \in 1..Len(d) : n_train(d[i].hi, p) = 0

\* training_X: the leading n_train frames.
TrainingPart(seg, p) == Segment(seg.lo, seg.lo + n_train(seg.hi, p) - 1)

\* testing_X: the trailing n_test frames.
ValidationPart(seg, p) == Segment(seg.lo + n_train(seg.hi, p), seg.hi)

\* gui.py:171, train_data = data_dict.
GuiTrainData(d, p) == d

\* gui.py:170-190, the else branch: train_data is the whole data_dict;
\* training_data and validation_data are the two parts of every session.
GuiTimeSplit ==
    /\ split_entry = "gui"
    /\ split_pc = "start"
    /\ ~SplitRaises(data_dict, percent_split)
    /\ fit_data' = GuiTrainData(data_dict, percent_split)
    /\ training_data' =
          [i \in 1..Len(data_dict) |-> TrainingPart(data_dict[i], percent_split)]
    /\ validation_data' =
          [i \in 1..Len(data_dict) |-> ValidationPart(data_dict[i], percent_split)]
    /\ split_pc' = "split"
    /\ UNCHANGED <<io_vars, run_vars, main_vars, copy_vars, part_vars, split_entry, data_dict,
                   percent_split, split_model>>

\* wrappers.py:114-118, get_training_data_splits(percent_split / 100,
\* data_dict): train_data is the leading part of every session, test_data
\* the trailing part.
WrapperTimeSplit ==
    /\ split_entry = "wrapper"
    /\ split_pc = "start"
    /\ percent_split > 0
    /\ ~SplitRaises(data_dict, percent_split)
    /\ training_data' =
          [i \in 1..Len(data_dict) |-> TrainingPart(data_dict[i], percent_split)]
    /\ validation_data' =
          [i \in 1..Len(data_dict) |-> ValidationPart(data_dict[i], percent_split)]
    /\ fit_data' = training_data'
    /\ split_pc' = "split"
    /\ UNCHANGED <<io_vars, run_vars, main_vars, copy_vars, part_vars, split_entry, data_dict,
                   percent_split, split_model>>

\* wrappers.py:119-122, percent_split is 0 or lower: all the data is used.
WrapperNoSplit ==
    /\ split_entry = "wrapper"
    /\ split_pc = "start"
    /\ percent_split <= 0
    /\ fit_data' = data_dict
    /\ split_pc' = "split"
    /\ UNCHANGED <<io_vars, run_vars, main_vars, copy_vars, part_vars, split_entry, data_dict,
                   percent_split, training_data, validation_data, split_model>>

\* gui.py:184 / get_training_data_splits: train_test_split raises.
TimeSplitRaises ==
    /\ split_pc = "start"
    /\ split_entry = "wrapper" => percent_split > 0
    /\ SplitRaises(data_dict, percent_split)
    /\ split_pc' = "error"
    /\ UNCHANGED <<io_vars, run_vars, main_vars, copy_vars, part_vars, split_entry, data_dict,
                   percent_split, training_data, validation_data, fit_data,
                   split_model>>

\* gui.py:214 / util.py:135-140, no checkpoint: ARHMM(data_dict=train_data).
SplitConstruct ==
    /\ split_pc = "split"
    /\ split_model' = ARHMM(fit_data)
    /\ split_pc' = "constructed"
    /\ UNCHANGED <<io_vars, run_vars, main_vars, copy_vars, part_vars, split_entry, data_dict,
                   percent_split, training_data, validation_data, fit_data>>

\* gui.py:204 / util.py:128, a checkpoint of this job exists:
\* load_arhmm_checkpoint(checkpoint_file, train_data).
SplitRestore ==
    /\ split_pc = "split"
    /\ \E i \in 1..MaxIter :
          split_model' =
             load_arhmm_checkpoint(
                save_arhmm_checkpoint(ARHMM(fit_data), i), fit_data).model
    /\ split_pc' = "restored"
    /\ UNCHANGED <<io_vars, run_vars, main_vars, copy_vars, part_vars, split_entry, data_dict,
                   percent_split, training_data, validation_data, fit_data>>

\* Sessions of 1..MaxFrames frames each.
InitSplit ==
    /\ MainIdle
    /\ train_data = <<>>
    /\ CopyIdle
    /\ PartIdle
    /\ RunIdle
    /\ IoIdle
    /\ split_pc = "start"
    /\ split_entry \in {"gui", "wrapper"}
    /\ \E lens \in SeqsOver(1..MaxFrames, MaxSessions) :
          /\ Len(lens) >= 1
          /\ data_dict = [i \in 1..Len(lens) |-> Segment(1, lens[i])]
    /\ percent_split \in PercentSplits
    /\ training_data = <<>>
    /\ validation_data = <<>>
    /\ fit_data = <<>>
    /\ split_model = <<>>

NextSplit ==
    \/ GuiTimeSplit
    \/ WrapperTimeSplit
    \/ WrapperNoSplit
    \/ TimeSplitRaises
    \/ SplitConstruct
    \/ SplitRestore

\* Startup of one run in time-split mode (hold-out off).
SpecSplit == InitSplit /\ [][NextSplit]_vars

\* The model is bound to no frame of a validation segment.
NoValidationFrameBound ==
    \A i \in 1..Len(split_model) :
       FramesOf(split_model[i].data) \cap FramesOf(validation_data[i]) = {}

\* C12: in time-split mode (hold-out off, percent split > 0) the data bound
\* to the model at construction or at checkpoint restore holds no frame of
\* any session's trailing validation segment, in gui.learn_model_command and
\* in learn_model_wrapper.
C12_ValidationNeverBound ==
    (split_pc \in {"constructed", "restored"} /\ percent_split > 0)
    => NoValidationFrameBound

\* C12 for learn_model_wrapper alone.
C12_WrapperValidationNeverBound ==
    (split_entry = "wrapper" /\ split_pc \in {"constructed", "restored"}
       /\ percent_split > 0)
    => NoValidationFrameBound

C12_WrapperWitness ==
    /\ split_entry = "wrapper"
    /\ split_pc = "restored"
    /\ percent_split = 20
    /\ Len(split_model) = 2
    /\ validation_data[1] = Segment(4, 4)
    /\ split_model[1].data = Segment(1, 3)

\* ------------------------------------------- one run of an entry point
\* cli.learn_model (cli.py:76-261), gui.learn_model_command (gui.py:36-380)
\* and learn_model_wrapper (wrappers.py:36-216) in the order of their
\* lines. The partition is the partition code above, the checkpoint probe
\* the startup code above; train_model is one step here.

\* A destination path as its name parts: the stem, then the extension.
DestFiles ==
    {<<"model", ".p">>, <<"model", ".h5">>, <<"model", ".txt">>, <<"model">>}

\* os.path.splitext(basename(dest_file))[-1].
splitext(name) == IF Len(name) >= 2 THEN name[Len(name)] ELSE ""

\* str.endswith.
endswith(name, suffix) == Len(name) >= 1 /\ name[Len(name)] = suffix

\* wrappers.py:51-57, the extensions the wrapper accepts.
WrapperFiletypes == {".mat", ".z", ".pkl", ".p", ".h5"}

\* util.py:231-245, save_dict has a branch for the file name.
SaveDictKnows(name) ==
    \/ endswith(name, ".mat")
    \/ endswith(name, ".z")
    \/ endswith(name, ".pkl") \/ endswith(name, ".p")
    \/ endswith(name, ".h5")

run_in == <<run_entry, dest_file, writable, ncpus_req, stop, verbose>>

part_in == <<all_keys, nfolds, hold_out_req, hold_out_seed, prun, prior>>

\* The run ends with an exception.
Raise(e) ==
    /\ run_pc' = "error"
    /\ run_err' = e

\* wrappers.py:49-61, cli.py:83-88, gui.py:57-58: the checks on dest_file
\* made before anything is loaded.
RunCheckDest ==
    /\ run_pc = "start"
    /\ IF run_entry = "wrapper" /\ splitext(dest_file) \notin WrapperFiletypes
       THEN Raise("AssertionError")
       ELSE IF ~writable
       THEN Raise("IOError")
       ELSE /\ run_pc' = "checked"
            /\ UNCHANGED run_err
    /\ UNCHANGED <<main_vars, copy_vars, part_vars, io_vars, split_vars, run_in, trace,
                   ncpus, labels, bundle, notices>>

\* cli.py:97-102, gui.py:70-99, wrappers.py:77-101: the data is loaded.
RunLoadPcs ==
    /\ run_pc = "checked"
    /\ trace' = Append(trace, "load_pcs")
    /\ ppc' = "start"
    /\ run_pc' = "loaded"
    /\ UNCHANGED <<main_vars, copy_vars, io_vars, split_vars, run_in, part_in, hold_out,
                   hold_out_list, train_list, run_err, ncpus, labels, bundle,
                   notices>>

\* np.array_split raised inside the partition.
RunPartitionFails ==
    /\ run_pc = "loaded"
    /\ ppc = "error"
    /\ Raise("ValueError")
    /\ UNCHANGED <<main_vars, copy_vars, part_vars, io_vars, split_vars, run_in, trace,
                   ncpus, labels, bundle, notices>>

\* Mutant of Clamped: the requested count is kept.
ClampedNever(n, sessions) == n

\* cli.py:131-133, gui.py:129-131.
Clamped(n, sessions) == IF n > sessions THEN sessions ELSE n

\* cli.py:131-133, gui.py:129-132: ncpus is clamped to the training
\* sessions, with a warning.
RunClamp ==
    /\ run_pc = "loaded"
    /\ ppc = "split"
    /\ ncpus' = Clamped(ncpus, Len(train_list))
    /\ Emit(IF ncpus > Len(train_list) THEN {"Setting ncpus"} ELSE {})
    /\ run_pc' = "clamped"
    /\ UNCHANGED <<main_vars, copy_vars, part_vars, io_vars, split_vars, run_in, trace,
                   run_err, labels, bundle>>

\* cli.py:184-188, gui.py:196-201, wrappers.py:124-130: the run reaches the
\* checkpoint probe with the training data it has built; the checkpoint
\* files are what earlier runs of this job left, intact or damaged.
RunEnterProbe ==
    /\ run_pc = "clamped"
    /\ ppc = "rebuilt"
    /\ entry' = run_entry
    /\ train_data' = train_list
    /\ pc' = "start"
    /\ \E p \in JobFiles(train_list), b \in JobFiles(train_list) :
          /\ disk' = [primary |-> p, backup |-> b]
          /\ disk0' = [primary |-> p, backup |-> b]
    /\ run_pc' = "probe"
    /\ UNCHANGED <<copy_vars, part_vars, io_vars, split_vars, run_in, trace, run_err,
                   ncpus, labels, bundle, notices, err, newest, num_iter,
                   checkpoint_freq, use_checkpoint, arhmm, itr, cur,
                   checkpoint_file, reads, restored_from, fell_back, runs,
                   completed>>

\* An exception of the probe leaves the entry point.
RunProbeFails ==
    /\ run_pc = "probe"
    /\ pc = "error"
    /\ Raise(err)
    /\ UNCHANGED <<main_vars, copy_vars, part_vars, io_vars, split_vars, run_in, trace,
                   ncpus, labels, bundle, notices>>

\* wrappers.py:143-146: with a hold-out list, get_session_groupings is
\* called with three arguments; util.py:169 takes four, so the call raises
\* TypeError. Without one, groupings = None. gui.py:226-242, 261-264 build
\* the groupings in place.
RunGroupings ==
    /\ run_pc = "probe"
    /\ pc = "ready"
    /\ IF run_entry = "wrapper" /\ hold_out_list.some
       THEN Raise("TypeError")
       ELSE /\ run_pc' = "grouped"
            /\ UNCHANGED run_err
    /\ UNCHANGED <<main_vars, copy_vars, part_vars, io_vars, split_vars, run_in, trace,
                   ncpus, labels, bundle, notices>>

\* train_model(model=arhmm, start=itr, ...): it returns the model and one
\* label sequence per sub-state of the model, in the model's order; an
\* interrupted call returns before num_iter is reached.
RunTrainModel ==
    /\ run_pc = "grouped"
    /\ trace' = Append(trace, "train_model")
    /\ \E n \in itr..num_iter :
          /\ stop \/ n = num_iter
          /\ cur' = n
    /\ pc' = "done"
    /\ labels' = [i \in 1..Len(arhmm) |-> arhmm[i].src]
    /\ run_pc' = "trained"
    /\ UNCHANGED <<copy_vars, part_vars, io_vars, split_vars, run_in, run_err, ncpus,
                   bundle, notices, inputs, ghosts, disk, newest, err, arhmm,
                   itr, checkpoint_file, reads, restored_from, fell_back>>

\* wrappers.py:165-169: get_loglikelihoods(arhmm, train_data, groupings[0],
\* ...) subscripts groupings, which is None here: TypeError.
\* gui.py:332-346 computes the likelihoods without the groupings.
RunLikelihoods ==
    /\ run_pc = "trained"
    /\ IF run_entry = "wrapper"
       THEN Raise("TypeError")
       ELSE /\ run_pc' = "scored"
            /\ UNCHANGED run_err
    /\ UNCHANGED <<main_vars, copy_vars, part_vars, io_vars, split_vars, run_in, trace,
                   ncpus, labels, bundle, notices>>

\* gui.py:361-378, wrappers.py:189-207: export_dict is built and handed to
\* save_dict (util.py:231-245), which raises ValueError for a file name it
\* has no branch for.
RunSaveDict ==
    /\ run_pc = "scored"
    /\ trace' = Append(trace, "save_dict")
    /\ IF SaveDictKnows(dest_file)
       THEN /\ bundle' = [saved |-> TRUE, keys |-> all_keys, labels |-> labels]
            /\ run_pc' = "saved"
            /\ UNCHANGED run_err
       ELSE /\ Raise("ValueError")
            /\ UNCHANGED bundle
    /\ UNCHANGED <<main_vars, copy_vars, part_vars, io_vars, split_vars, run_in, ncpus,
                   labels, notices>>

\* wrappers.py:209-216: KeyboardInterrupt after an interrupted training,
\* otherwise a normal return. gui.py:380: return img_path, a name that is
\* bound only when verbose is set.
RunReturn ==
    /\ run_pc = "saved"
    /\ IF run_entry = "wrapper"
       THEN IF stop
            THEN /\ run_pc' = "interrupted"
                 /\ run_err' = "KeyboardInterrupt"
            ELSE /\ run_pc' = "returned"
                 /\ UNCHANGED run_err
       ELSE IF verbose
            THEN /\ run_pc' = "returned"
                 /\ UNCHANGED run_err
            ELSE Raise("UnboundLocalError")
    /\ UNCHANGED <<main_vars, copy_vars, part_vars, io_vars, split_vars, run_in, trace,
                   ncpus, labels, bundle, notices>>

\* One command line: any destination, any partition options, any worker
\* count.
InitRun ==
    /\ CopyIdle
    /\ SplitIdle
    /\ IoIdle
    /\ entry = "none"
    /\ pc = "off"
    /\ err = "none"
    /\ disk = [primary |-> Absent, backup |-> Absent]
    /\ disk0 = [primary |-> Absent, backup |-> Absent]
    /\ newest \in Slots
    /\ train_data = <<>>
    /\ num_iter = MaxIter
    /\ checkpoint_freq = 0
    /\ use_checkpoint \in BOOLEAN
    /\ arhmm = <<>>
    /\ itr = 0
    /\ cur = 0
    /\ checkpoint_file = "primary"
    /\ reads = {}
    /\ restored_from = "none"
    /\ fell_back = FALSE
    /\ runs = 1
    /\ completed = FALSE
    /\ ppc = "off"
    /\ \E n \in 1..MaxKeys : all_keys = [i \in 1..n |-> i]
    /\ nfolds \in 0..MaxFolds
    /\ hold_out_req \in BOOLEAN
    /\ hold_out = hold_out_req
    /\ hold_out_seed \in (-1)..MaxSeed
    /\ hold_out_list = None
    /\ train_list = <<>>
    /\ prun = 1
    /\ prior = NoPrior
    /\ run_pc = "start"
    /\ run_entry \in Entries
    /\ dest_file \in DestFiles
    /\ writable \in BOOLEAN
    /\ trace = <<>>
    /\ run_err = "none"
    /\ ncpus \in 0..MaxCpus
    /\ ncpus_req = ncpus
    /\ stop \in BOOLEAN
    /\ verbose \in BOOLEAN
    /\ stop => run_entry = "wrapper"
    /\ use_checkpoint => run_entry = "wrapper"
    /\ newest = "backup" => run_entry = "wrapper"
    /\ verbose => run_entry = "gui"
    /\ labels = <<>>
    /\ bundle = [saved |-> FALSE, keys |-> <<>>, labels |-> <<>>]
    /\ notices = {}

NextRun ==
    \/ RunCheckDest
    \/ RunLoadPcs
    \/ PartitionSeeded
    \/ PartitionUnseeded
    \/ PartitionRaises
    \/ PartitionDisabled
    \/ RunPartitionFails
    \/ RunClamp
    \/ Rebuild
    \/ RunEnterProbe
    \/ CliCheckpointPaths
    \/ GuiFresh
    \/ GuiLoadPrimary
    \/ GuiLoadFallback
    \/ GetCurrentModel
    \/ RunProbeFails
    \/ RunGroupings
    \/ RunTrainModel
    \/ RunLikelihoods
    \/ RunSaveDict
    \/ RunReturn

\* One run of an entry point from its first line to its end.
SpecRun == InitRun /\ [][NextRun]_vars

\* C13: in every entry point an unwritable destination directory or a
\* destination extension save_dict does not recognise is rejected before
\* data loading, model construction or training; no run trains and then
\* fails at save_dict with an unknown file type.
C13_FailFast ==
    /\ (~writable \/ ~SaveDictKnows(dest_file))
       => (trace = <<>> /\ arhmm = <<>>)
    /\ ~(/\ run_pc = "error"
         /\ run_err = "ValueError"
         /\ trace = <<"load_pcs", "train_model", "save_dict">>)

\* C13 for learn_model_wrapper alone.
C13_WrapperFailFast ==
    (run_entry = "wrapper" /\ (~writable \/ ~SaveDictKnows(dest_file)))
    => (trace = <<>> /\ arhmm = <<>>)

\* C13 for the unwritable destination alone, in every entry point.
C13_UnwritableRejected ==
    ~writable => (trace = <<>> /\ arhmm = <<>> /\ run_pc \in {"start", "error"})

\* gui.learn_model_command trains and then fails in save_dict.
C13_GuiTrainsThenFails ==
    /\ run_entry = "gui"
    /\ dest_file = <<"model", ".txt">>
    /\ run_pc = "error"
    /\ run_err = "ValueError"
    /\ trace = <<"load_pcs", "train_model", "save_dict">>

\* The run has ended.
RunOver == run_pc \in {"error", "interrupted", "returned"}

\* C14: in learn_model_wrapper, when train_model reports an interruption
\* the bundle is saved with save_dict and only then KeyboardInterrupt is
\* raised; when training is not interrupted the wrapper returns normally.
C14_InterruptedStatus ==
    (run_entry = "wrapper" /\ RunOver /\ "train_model" \in Range(trace))
    => (/\ bundle.saved
        /\ run_pc = (IF stop THEN "interrupted" ELSE "returned"))

\* The interrupted wrapper run ends with neither a bundle nor
\* KeyboardInterrupt.
C14_InterruptedUnsaved ==
    /\ run_entry = "wrapper"
    /\ stop
    /\ trace = <<"load_pcs", "train_model">>
    /\ run_pc = "error"
    /\ run_err = "TypeError"
    /\ ~bundle.saved

\* C15: in every saved result bundle `keys` has one entry per session that
\* has labels, in the same order, also when sessions are held out.
C15_KeysMatchLabels ==
    bundle.saved => bundle.keys = bundle.labels

\* C15 when no session is held out.
C15_KeysMatchLabelsNoHoldOut ==
    (bundle.saved /\ ~hold_out) => bundle.keys = bundle.labels

C15_NoHoldOutWitness ==
    /\ bundle.saved
    /\ ~hold_out
    /\ restored_from = "backup"
    /\ bundle.keys = <<1, 2, 3>>
    /\ bundle.labels = <<1, 2, 3>>

\* The second label sequence belongs to session 3 while keys[2] is session 2.
C15_HeldOutMisaligned ==
    /\ run_entry = "gui"
    /\ bundle.saved
    /\ hold_out_list = Some(<<2>>)
    /\ bundle.keys = <<1, 2, 3>>
    /\ bundle.labels = <<1, 3>>

\* The decisions of a run and the message each one needs.
FellBackToBackup == fell_back /\ restored_from = "backup"

FreshForWantOfCheckpoint ==
    /\ entry = "wrapper"
    /\ use_checkpoint
    /\ pc \in {"ready", "done"}
    /\ restored_from = "none"

HoldOutDisabled == hold_out_req /\ ~Feasible(nkeys, nfolds)

UnseededDraw == hold_out /\ Feasible(nkeys, nfolds) /\ ~Seeded(hold_out_seed)

WorkersClamped == ncpus # ncpus_req

PartitionDone == ppc \in {"split", "rebuilt"}

Told(msgs) == notices \cap msgs # {}

\* C16: each fallback or degrade decision of a run is accompanied by a
\* message before training starts: falling back to the backup checkpoint,
\* starting fresh because no checkpoint could be loaded or found, disabling
\* hold-out for want of sessions, drawing an unseeded partition, clamping
\* the worker count.
C16_EveryDecisionNoticed ==
    /\ FellBackToBackup
       => Told({"Loading original checkpoint failed, checking backup"})
    /\ FreshForWantOfCheckpoint
       => Told({"Loading original checkpoint failed, creating new ARHMM",
                "No matching checkpoints found, creating new ARHMM"})
    /\ (PartitionDone /\ HoldOutDisabled) => Told({"Hold-out disabled"})
    /\ (PartitionDone /\ UnseededDraw) => Told({"Random seed not set"})
    /\ WorkersClamped => Told({"Setting ncpus"})

\* C16 without the disabling of hold-out.
C16_OtherDecisionsNoticed ==
    /\ FellBackToBackup
       => Told({"Loading original checkpoint failed, checking backup"})
    /\ FreshForWantOfCheckpoint
       => Told({"Loading original checkpoint failed, creating new ARHMM",
                "No matching checkpoints found, creating new ARHMM"})
    /\ (PartitionDone /\ UnseededDraw) => Told({"Random seed not set"})
    /\ WorkersClamped => Told({"Setting ncpus"})

\* Training starts in gui.learn_model_command after hold-out was switched
\* off without any message about it.
C16_GuiSilentDegrade ==
    /\ run_entry = "gui"
    /\ hold_out_req
    /\ nkeys = 2
    /\ nfolds = 3
    /\ ~hold_out
    /\ "train_model" \in Range(trace)
    /\ notices = {}

\* ---------------------------------------------------------------------
\* util.load_pcs: reading the feature matrices of the sessions from a
\* .mat, pickle or .h5 file.
\* ---------------------------------------------------------------------

\* Largest number of sessions, frames and feature dimensions stored in an
\* input file, and largest npcs asked for.
MaxStored == 2
MaxRows == 2
MaxDims == 3
MaxNpcs == 4

Max(a, b) == IF a > b THEN a ELSE b

\* A two-dimensional array: its shape and its cells.
Array(nrow, ncol, cell(_, _)) ==
    [nrow |-> nrow, ncol |-> ncol,
     at |-> [rc \in (1..nrow) \X (1..ncol) |-> cell(rc[1], rc[2])]]

\* The feature matrix of session id: frames x dims, each cell naming its
\* session, frame and dimension.
SessionCell(id, r, c) == <<id, r, c>>

Session(id, frames, dims) ==
    LET cell(r, c) == SessionCell(id, r, c)
    IN  Array(frames, dims, cell)

\* arr.T
T(arr) ==
    LET cell(r, c) == arr.at[<<c, r>>]
    IN  Array(arr.ncol, arr.nrow, cell)

\* The end of the slice [:n] of an axis of length len.
SliceStop(n, len) == IF n >= 0 THEN Min(n, len) ELSE Max(0, len + n)

\* arr[:n, :]
RowsUpTo(arr, n) ==
    LET cell(r, c) == arr.at[<<r, c>>]
    IN  Array(SliceStop(n, arr.nrow), arr.ncol, cell)

\* arr[:, :n] without the truncation.
ColsAll(arr, n) == arr

\* arr[:, :n]
ColsUpTo(arr, n) ==
    LET cell(r, c) == arr.at[<<r, c>>]
    IN  Array(arr.nrow, SliceStop(n, arr.ncol), cell)

\* The extensions an input file may have.
PickleExts == {".z", ".pkl", ".p"}
InputExts == {".mat", ".h5", ".txt"} \cup PickleExts

\* What a file of each extension holds under var_name: a MATLAB cell array
\* of references, a pickled dict of arrays or of (array, group) pairs, an
\* h5 dataset or an h5 group of datasets.
KindsOf(ext) ==
    IF ext = ".mat" THEN {"cells"}
    ELSE IF ext \in PickleExts THEN {"plain", "tuple"}
    ELSE IF ext = ".h5" THEN {"dataset", "group"}
    ELSE {"text"}

\* The names a MATLAB or h5 container may hold at its root.
VarNames == {"scores"}
RootNames == VarNames \cup {"uuids", "uuid"}

\* The array stored for a session: MATLAB writes column-major, so h5py
\* reads a frames x dims matrix of a .mat file as dims x frames.
StoredArray(ext, session) == IF ext = ".mat" THEN T(session) ELSE session

\* The session an array of the file stands for.
Logical(file, i) == StoredArray(splitext(file.name), file.values[i].arr)

\* The input files: name, root keys, kind and stored values.
InputFilesOf(n) ==
    { [name |-> <<"pcs", ext>>, keys |-> keys, kind |-> kind,
       values |-> [i \in 1..n |->
                      [tuple |-> kind = "tuple",
                       arr |-> StoredArray(ext, Session(i, frames[i], dims))]]] :
        ext \in InputExts, kind \in UNION {KindsOf(e) : e \in InputExts},
        keys \in SUBSET RootNames, frames \in [1..n -> 1..MaxRows],
        dims \in 1..MaxDims }

InputFiles == UNION {InputFilesOf(n) : n \in 1..MaxStored}

WellFormedInput(file) ==
    LET ext == splitext(file.name)
    IN  /\ file.kind \in KindsOf(ext)
        /\ DOMAIN file.values = 1..Len(file.values)
        /\ file.kind = "dataset" => Len(file.values) = 1
        /\ ext \notin {".mat", ".h5"} => file.keys = {}

\* load_data_from_matlab(filename, var_name, npcs): no entry at all when the
\* variable is absent.
load_data_from_matlab(file, var, n) ==
    IF var \in file.keys
    THEN [i \in 1..Len(file.values) |-> T(RowsUpTo(file.values[i].arr, n))]
    ELSE <<>>

\* The exception load_pcs raises on the file ("none" if it returns).
LoadPcsError(file, var, n) ==
    IF endswith(file.name, ".mat") THEN "none"
    ELSE IF splitext(file.name) \in PickleExts THEN "none"
    ELSE IF endswith(file.name, ".h5")
    THEN IF var \notin file.keys THEN "IOError"
         ELSE IF "uuids" \in file.keys /\ "uuid" \notin file.keys
              THEN "KeyError"
              ELSE "none"
    ELSE "ValueError"

\* The data_dict load_pcs returns, as the sequence of its values.
LoadedData(file, var, n) ==
    IF endswith(file.name, ".mat") THEN load_data_from_matlab(file, var, n)
    ELSE [i \in 1..Len(file.values) |-> ColsUpTo(file.values[i].arr, n)]

\* load_pcs returns.
LoadPcs ==
    /\ load_pc = "start"
    /\ LoadPcsError(filename, var_name, npcs) = "none"
    /\ load_pc' = "loaded"
    /\ loaded' = LoadedData(filename, var_name, npcs)
    /\ UNCHANGED <<main_vars, copy_vars, part_vars, split_vars, run_vars,
                   h5_vars, aux_vars, filename, var_name, npcs, load_err>>

\* load_pcs raises.
LoadPcsRaises ==
    /\ load_pc = "start"
    /\ LoadPcsError(filename, var_name, npcs) # "none"
    /\ load_pc' = "error"
    /\ load_err' = LoadPcsError(filename, var_name, npcs)
    /\ UNCHANGED <<main_vars, copy_vars, part_vars, split_vars, run_vars,
                   h5_vars, aux_vars, filename, var_name, npcs, loaded>>

InitLoad ==
    /\ MainIdle
    /\ train_data = <<>>
    /\ CopyIdle
    /\ PartIdle
    /\ SplitIdle
    /\ RunIdle
    /\ H5Idle
    /\ AuxIdle
    /\ load_pc = "start"
    /\ filename \in {f \in InputFiles : WellFormedInput(f)}
    /\ var_name \in VarNames
    /\ npcs \in 0..MaxNpcs
    /\ load_err = "none"
    /\ loaded = <<>>

NextLoad == LoadPcs \/ LoadPcsRaises

SpecLoad == InitLoad /\ [][NextLoad]_vars

\* C17: every feature matrix load_pcs returns has the frames of the stored
\* session and exactly min(npcs, stored dimensions) columns, which are the
\* first npcs feature dimensions of that session.
C17_ColumnTruncation ==
    load_pc = "loaded" =>
        \A i \in DOMAIN loaded :
            LET m == loaded[i]
                s == Logical(filename, i)
            IN  /\ m.nrow = s.nrow
                /\ m.ncol = Min(npcs, s.ncol)
                /\ \A rc \in DOMAIN m.at : m.at[rc] = s.at[rc]

\* C17: a stored session wider than npcs has been loaded and cut.
C17_Witness ==
    /\ load_pc = "loaded"
    /\ Len(loaded) = MaxStored
    /\ \E i \in DOMAIN loaded :
        /\ Logical(filename, i).ncol > npcs
        /\ npcs > 0
        /\ loaded[i].ncol = npcs
        /\ loaded[i].nrow = MaxRows

\* C17: the same for each of the formats.
C17_WitnessMat == C17_Witness /\ filename.kind = "cells"

C17_WitnessTuple == C17_Witness /\ filename.kind = "tuple"

C17_WitnessGroup == C17_Witness /\ filename.kind = "group"

\* C18: load_pcs on a .mat or .h5 container without the requested variable
\* never returns a session collection.
C18_MissingVariableIsError ==
    /\ splitext(filename.name) \in {".mat", ".h5"}
    /\ var_name \notin filename.keys
    => load_pc # "loaded"

\* C18: the same for .h5 containers alone.
C18_H5MissingVariableIsError ==
    /\ splitext(filename.name) = ".h5"
    /\ var_name \notin filename.keys
    => load_pc # "loaded"

\* C18: a .mat file without the variable has been loaded as no session.
C18_MatLoadedEmpty ==
    /\ splitext(filename.name) = ".mat"
    /\ var_name \notin filename.keys
    /\ load_pc = "loaded"
    /\ loaded = <<>>

\* ---------------------------------------------------------------------
\* util.dict_to_h5 and util.h5_to_dict: a nested dict written to an h5
\* container and read back.
\* ---------------------------------------------------------------------

\* Largest number of items of the dict handed to dict_to_h5.
MaxItems == 2

\* A value of a dict: a leaf with a flat value, an object array with its
\* elements, or a dict with its items in insertion order.
Leaf(type, val) == [type |-> type, val |-> val, elems |-> <<>>, items |-> <<>>]

ObjectArray(elems) ==
    [type |-> "object_ndarray", val |-> <<>>, elems |-> elems, items |-> <<>>]

Dict(items) == [type |-> "dict", val |-> <<>>, elems |-> <<>>, items |-> items]

\* An element of an object array: a 1-d array, or None.
Elem(val) == [none |-> FALSE, val |-> val]
NoneElem == [none |-> TRUE, val |-> <<>>]

Item(key, item) == [key |-> key, item |-> item]

\* The leaves written: a list, a numeric array, a ragged object array, one
\* with a None element, a str (its utf8 bytes) and None.
NumericLeaves == {Leaf("list", <<1, 2, 3>>), Leaf("ndarray", <<4, 5>>)}

Leaves ==
    NumericLeaves \cup
    { ObjectArray(<<Elem(<<1>>), Elem(<<2, 3>>)>>),
      ObjectArray(<<Elem(<<1>>), NoneElem>>),
      Leaf("str", <<115>>),
      Leaf("NoneType", <<>>) }

\* Keys are strings, held as the components that '/' separates: <<"a", "b">>
\* is the key "a/b".
InnerKeys == {<<"b">>}
TopKeys == {<<"a">>, <<"b">>, <<"a", "b">>}

\* The dicts over the keys whose values are drawn from vals, with at most n
\* items.
DictsOver(keys, vals, n) ==
    { d \in UNION {[1..m -> [key : keys, item : vals]] : m \in 0..n} :
        \A i, j \in DOMAIN d : i # j => d[i].key # d[j].key }

InnerDicts == {Dict(d) : d \in DictsOver(InnerKeys, Leaves, MaxItems)}

ExportDicts == DictsOver(TopKeys, Leaves \cup InnerDicts, MaxItems)

IsPrefix(p, q) == Len(p) <= Len(q) /\ SubSeq(q, 1, Len(p)) = p

\* h5file.create_dataset(name, ...) fails: the name exists, or one of its
\* ancestors is a dataset.
NameTaken(file, name) ==
    \E ds \in file : IsPrefix(ds.path, name) \/ IsPrefix(name, ds.path)

\* The types dict_to_h5 writes as one dataset.
Saveable == {"list", "ndarray", "str", "bytes", "int", "float"}

\* The dataset created for a leaf: lists and arrays as an array, a str as its
\* bytes, an object array as variable-length rows of which those that are not
\* None are assigned.
Stored(path, item) ==
    IF item.type = "object_ndarray"
    THEN [path |-> path, kind |-> "vlen", val |-> <<>>,
          rows |-> [j \in DOMAIN item.elems |-> item.elems[j].val],
          assigned |-> {j \in DOMAIN item.elems : ~item.elems[j].none}]
    ELSE [path |-> path,
          kind |-> IF item.type \in {"list", "ndarray"} THEN "array"
                   ELSE IF item.type \in {"str", "bytes"} THEN "bytes"
                   ELSE "scalar",
          val |-> item.val, rows |-> <<>>, assigned |-> {}]

\* dict_to_h5, one item that is not a dict (util.py:273-286).
WriteLeaf(st, path, item) ==
    IF item.type = "object_ndarray"
    THEN IF item.elems[1].none
         THEN [st EXCEPT !.err = "AttributeError"]
         ELSE IF NameTaken(st.file, path)
              THEN [st EXCEPT !.err = "name already exists"]
              ELSE [st EXCEPT !.file = @ \cup {Stored(path, item)}]
    ELSE IF item.type \in Saveable
    THEN IF NameTaken(st.file, path)
         THEN [st EXCEPT !.err = "name already exists"]
         ELSE [st EXCEPT !.file = @ \cup {Stored(path, item)}]
    ELSE [st EXCEPT !.err = "Cannot save " \o item.type \o " type"]

RECURSIVE WriteItems(_, _, _, _)

\* dict_to_h5(h5file, d, path), from item i on; it stops at the first
\* exception.
WriteItems(st, d, path, i) ==
    IF i > Len(d) \/ st.err # "none" THEN st
    ELSE LET key == d[i].key
             item == d[i].item
             next == IF item.type = "dict"
                     THEN WriteItems(st, item.items, path \o key, 1)
                     ELSE WriteLeaf(st, path \o key, item)
         IN  WriteItems(next, d, path, i + 1)

\* dict_to_h5(h5file, d) on an empty container.
dict_to_h5(d) == WriteItems([file |-> {}, err |-> "none"], d, <<>>, 1)

\* item[()]: what a dataset reads as.
ReadValue(ds) ==
    IF ds.kind = "vlen"
    THEN ObjectArray([j \in DOMAIN ds.rows |-> Elem(ds.rows[j])])
    ELSE Leaf(IF ds.kind = "array" THEN "ndarray"
              ELSE IF ds.kind = "bytes" THEN "bytes"
              ELSE "int", ds.val)

\* The paths of the members of the group at path.
Members(file, path) ==
    { SubSeq(ds.path, 1, Len(path) + 1) :
        ds \in {x \in file : IsPrefix(path, x.path) /\ Len(x.path) > Len(path)} }

RECURSIVE _load_h5_to_dict(_, _)

\* _load_h5_to_dict(file, path) for a group: a dict keyed by member name.
_load_h5_to_dict(file, path) ==
    [key \in {<<m[Len(m)]>> : m \in Members(file, path)} |->
        LET m == path \o key
        IN  IF \E ds \in file : ds.path = m
            THEN ReadValue(CHOOSE ds \in file : ds.path = m)
            ELSE Dict(_load_h5_to_dict(file, m))]

\* h5_to_dict(h5file, '/')
h5_to_dict(file) == _load_h5_to_dict(file, <<>>)

\* dict_to_h5 returns.
DictToH5 ==
    /\ h5_pc = "start"
    /\ dict_to_h5(export_dict).err = "none"
    /\ h5_pc' = "written"
    /\ h5file' = dict_to_h5(export_dict).file
    /\ UNCHANGED <<main_vars, copy_vars, part_vars, split_vars, run_vars,
                   load_vars, aux_vars, export_dict, h5_err, out>>

\* dict_to_h5 raises; the datasets created before stay in the container.
DictToH5Raises ==
    /\ h5_pc = "start"
    /\ dict_to_h5(export_dict).err # "none"
    /\ h5_pc' = "error"
    /\ h5file' = dict_to_h5(export_dict).file
    /\ h5_err' = dict_to_h5(export_dict).err
    /\ UNCHANGED <<main_vars, copy_vars, part_vars, split_vars, run_vars,
                   load_vars, aux_vars, export_dict, out>>

\* h5_to_dict reads the written container at '/'.
H5ToDict ==
    /\ h5_pc = "written"
    /\ h5_pc' = "read"
    /\ out' = h5_to_dict(h5file)
    /\ UNCHANGED <<main_vars, copy_vars, part_vars, split_vars, run_vars,
                   load_vars, aux_vars, export_dict, h5file, h5_err>>

InitH5 ==
    /\ MainIdle
    /\ train_data = <<>>
    /\ CopyIdle
    /\ PartIdle
    /\ SplitIdle
    /\ RunIdle
    /\ LoadIdle
    /\ AuxIdle
    /\ h5_pc = "start"
    /\ export_dict \in ExportDicts
    /\ h5file = {}
    /\ h5_err = "none"
    /\ out = <<>>

NextH5 == DictToH5 \/ DictToH5Raises \/ H5ToDict

SpecH5 == InitH5 /\ [][NextH5]_vars

RECURSIVE NumericTree(_)

\* The dict has only numeric list or array leaves, at every depth.
NumericTree(d) ==
    \A i \in DOMAIN d :
        IF d[i].item.type = "dict" THEN NumericTree(d[i].item.items)
        ELSE d[i].item \in NumericLeaves

RECURSIVE SameTree(_, _)

\* The dict read back has the nesting, the keys and the leaf values of d.
SameTree(d, back) ==
    /\ DOMAIN back = {d[i].key : i \in DOMAIN d}
    /\ \A i \in DOMAIN d :
        LET item == d[i].item
            got == back[d[i].key]
        IN  IF item.type = "dict"
            THEN got.type = "dict" /\ SameTree(item.items, got.items)
            ELSE got.type # "dict" /\ got.val = item.val

RECURSIVE PlainTree(_)

\* No key of the dict holds a '/' and no dict in it is empty.
PlainTree(d) ==
    \A i \in DOMAIN d :
        /\ Len(d[i].key) = 1
        /\ d[i].item.type = "dict" =>
            d[i].item.items # <<>> /\ PlainTree(d[i].item.items)

\* C19: a nested dict with string keys and numeric array or list leaves that
\* is written with dict_to_h5 and read back with h5_to_dict at '/' comes back
\* with the same nesting, the same keys at every level and equal leaves.
C19_RoundTrip ==
    h5_pc = "read" /\ NumericTree(export_dict) => SameTree(export_dict, out)

\* C19: the same for dicts without empty sub-dicts and without '/' in keys.
C19_PlainRoundTrip ==
    h5_pc = "read" /\ NumericTree(export_dict) /\ PlainTree(export_dict)
    => SameTree(export_dict, out)

\* C19: a nested dict with a leaf two levels down has come back whole.
C19_NestedReadBack ==
    /\ h5_pc = "read"
    /\ export_dict = <<Item(<<"a">>, Dict(<<Item(<<"b">>, Leaf("list", <<1, 2, 3>>))>>))>>
    /\ SameTree(export_dict, out)

\* C19: an empty sub-dict has left no trace in what is read back.
C19_EmptyDictLost ==
    /\ h5_pc = "read"
    /\ export_dict = <<Item(<<"a">>, Dict(<<>>))>>
    /\ out = <<>>

\* C19: the key "a/b" has come back as a dict "a" holding "b".
C19_SlashKeyNested ==
    /\ h5_pc = "read"
    /\ export_dict = <<Item(<<"a", "b">>, Leaf("list", <<1, 2, 3>>))>>
    /\ DOMAIN out = {<<"a">>}
    /\ out[<<"a">>].type = "dict"

RECURSIVE LeavesWritten(_, _, _)

\* Every leaf of d under path is a dataset of the container, and every
\* element of every object array has been assigned to its dataset.
LeavesWritten(file, d, path) ==
    \A i \in DOMAIN d :
        LET item == d[i].item
            name == path \o d[i].key
        IN  IF item.type = "dict" THEN LeavesWritten(file, item.items, name)
            ELSE \E ds \in file :
                    /\ ds.path = name
                    /\ item.type = "object_ndarray" =>
                        ds.assigned = DOMAIN item.elems

\* C20: when dict_to_h5 succeeds, every leaf and every element of an object
\* array of its input is in the container.
C20_NoLeafDropped ==
    h5_pc \in {"written", "read"} => LeavesWritten(h5file, export_dict, <<>>)

\* C20: a leaf of a type dict_to_h5 does not write makes it fail with an
\* error naming the type.
C20_UnsupportedTypeNamed ==
    /\ h5_pc = "start"
    /\ \E i \in DOMAIN export_dict : export_dict[i].item.type = "NoneType"
    => dict_to_h5(export_dict).err \in {"Cannot save NoneType type",
                                        "name already exists"}

\* C20: an object array with a None element has been written without it.
C20_NoneElementSkipped ==
    /\ h5_pc = "written"
    /\ export_dict = <<Item(<<"a">>, ObjectArray(<<Elem(<<1>>), NoneElem>>))>>
    /\ \E ds \in h5file : ds.path = <<"a">> /\ ds.assigned = {1}

\* ---------------------------------------------------------------------
\* The worker count of a run.
\* ---------------------------------------------------------------------

\* The positions of a run after cli.py:131-133 / gui.py:129-132.
PastClamp ==
    {"clamped", "probe", "grouped", "trained", "interrupted", "scored", "saved",
     "returned"}

\* C21: in cli.learn_model and gui.learn_model_command the worker count held
\* after the clamp, and handed to train_model, is min(requested ncpus,
\* len(train_list)).
C21_WorkerCountBound ==
    run_entry \in {"cli", "gui"} /\ run_pc \in PastClamp
    => /\ ncpus = Min(ncpus_req, Len(train_list))
       /\ ncpus <= Len(train_list)

\* C21: train_model has been handed a worker count that was cut down to the
\* training sessions of a hold-out partition.
C21_Witness ==
    /\ run_entry = "gui"
    /\ "train_model" \in Range(trace)
    /\ hold_out
    /\ ncpus_req > Len(train_list)
    /\ ncpus = Len(train_list)

\* ---------------------------------------------------------------------
\* One gui job run twice: the first run partitions, builds its model and
\* leaves a checkpoint; the second run partitions again and restores it.
\* ---------------------------------------------------------------------

\* gui.py:164-174, 213, 243-281: the first run builds the model over its
\* training data and train_model leaves a checkpoint of it at the primary
\* path.
ResumeFirstRun ==
    /\ ppc = "rebuilt"
    /\ prun = 1
    /\ entry = "none"
    /\ entry' = "gui"
    /\ train_data' = train_list
    /\ arhmm' = ARHMM(train_list)
    /\ \E i \in 1..MaxIter :
          /\ cur' = i
          /\ disk' = [disk EXCEPT
                        !.primary = save_arhmm_checkpoint(ARHMM(train_list), i)]
    /\ UNCHANGED <<rest_vars, copy_vars, part_vars, pc, err, disk0, newest,
                   num_iter, checkpoint_freq, use_checkpoint, itr,
                   checkpoint_file, reads, restored_from, fell_back, runs,
                   completed>>

\* The job is stopped and the same command is started again.
ResumeRestart ==
    /\ ppc = "rebuilt"
    /\ prun = 1
    /\ entry = "gui"
    /\ prun' = 2
    /\ ppc' = "start"
    /\ hold_out' = hold_out_req
    /\ hold_out_list' = None
    /\ train_list' = <<>>
    /\ train_data' = <<>>
    /\ arhmm' = <<>>
    /\ cur' = 0
    /\ runs' = runs + 1
    /\ UNCHANGED <<rest_vars, copy_vars, all_keys, nfolds, hold_out_req,
                   hold_out_seed, prior, entry, pc, err, disk, disk0, newest,
                   num_iter, checkpoint_freq, use_checkpoint, itr,
                   checkpoint_file, reads, restored_from, fell_back,
                   completed>>

\* gui.py:164-174, 196: the second run reaches the checkpoint probe with the
\* training data of its own partition.
ResumeProbe ==
    /\ ppc = "rebuilt"
    /\ prun = 2
    /\ pc = "off"
    /\ train_data' = train_list
    /\ pc' = "start"
    /\ UNCHANGED <<rest_vars, copy_vars, part_vars, entry, err, disk, disk0,
                   newest, num_iter, checkpoint_freq, use_checkpoint, arhmm,
                   itr, cur, checkpoint_file, reads, restored_from, fell_back,
                   runs, completed>>

NextResume ==
    \/ PartitionSeeded
    \/ PartitionUnseeded
    \/ PartitionRaises
    \/ PartitionDisabled
    \/ Rebuild
    \/ ResumeFirstRun
    \/ ResumeRestart
    \/ ResumeProbe
    \/ GuiLoadPrimary

SpecResume == InitPartition /\ [][NextResume]_vars

\* Every sub-state holds the data of the session it was built from.
OwnSession(states) == \A i \in DOMAIN states : states[i].data = states[i].src

\* C22: after a restart load_arhmm_checkpoint binds the i-th restored
\* sub-state to the data of the session it was built from, also when the
\* training set comes from a hold-out partition drawn without a seed.
C22_ResumeBindsOwnSession ==
    pc = "ready" /\ restored_from = "primary" => OwnSession(arhmm)

\* C22 for partitions that are seeded or disabled.
C22_SeededResumeBindsOwnSession ==
    /\ pc = "ready"
    /\ restored_from = "primary"
    /\ ~hold_out \/ Seeded(hold_out_seed)
    => OwnSession(arhmm)

\* C22: a seeded hold-out run has been restarted and restored.
C22_SeededWitness ==
    /\ pc = "ready"
    /\ hold_out
    /\ Seeded(hold_out_seed)
    /\ Len(arhmm) = 2
    /\ OwnSession(arhmm)

\* C22: the sub-state built from session 1 holds the data of session 2.
C22_WrongSessionBound ==
    /\ pc = "ready"
    /\ hold_out
    /\ ~Seeded(hold_out_seed)
    /\ all_keys = <<1, 2>>
    /\ arhmm = <<SubState(1, 2)>>

\* ---------------------------------------------------------------------
\* gui.py:89-97: the sessions whose group is 'n/a' are removed from the
\* session mapping, the key list and the metadata.
\* ---------------------------------------------------------------------

GroupLabels == {"n/a", "ctrl", "mut"}

\* list.remove(x): the list without the first element equal to x.
RemoveFirst(q, x) ==
    LET first == CHOOSE i \in 1..Len(q) :
                    q[i] = x /\ \A j \in 1..(i - 1) : q[j] # x
    IN  [j \in 1..(Len(q) - 1) |-> IF j < first THEN q[j] ELSE q[j + 1]]

\* gui.py:92-97, one pass of the loop body that raises nothing. i counts
\* from 0; groups is the copy of gui.py:90, all_keys is the list being cut.
FilterStep ==
    /\ flt_pc = "loop"
    /\ flt_i < flt_n
    /\ IF flt_groups[flt_i + 1] = "n/a"
       THEN /\ flt_i + 1 <= Len(flt_keys)
            /\ LET key == flt_keys[flt_i + 1]
               IN  /\ flt_dict' = RemoveFirst(flt_dict, key)
                   /\ meta_groups' = RemoveFirst(meta_groups, "n/a")
                   /\ meta_uuids' = RemoveFirst(meta_uuids, key)
                   /\ flt_keys' = RemoveFirst(flt_keys, key)
       ELSE UNCHANGED <<flt_dict, meta_groups, meta_uuids, flt_keys>>
    /\ flt_i' = flt_i + 1
    /\ UNCHANGED <<main_vars, copy_vars, part_vars, split_vars, run_vars,
                   load_vars, h5_vars, lk_vars, kp_vars, flt_pc, flt_n, flt_groups, label_of>>

\* gui.py:94: all_keys[i] with i past the end of the list that was cut.
FilterRaises ==
    /\ flt_pc = "loop"
    /\ flt_i < flt_n
    /\ flt_groups[flt_i + 1] = "n/a"
    /\ flt_i + 1 > Len(flt_keys)
    /\ flt_pc' = "error"
    /\ UNCHANGED <<main_vars, copy_vars, part_vars, split_vars, run_vars,
                   load_vars, h5_vars, lk_vars, kp_vars, flt_i, flt_n, flt_keys, flt_dict,
                   flt_groups, meta_groups, meta_uuids, label_of>>

\* gui.py:99: range(len(all_keys)) is used up.
FilterDone ==
    /\ flt_pc = "loop"
    /\ flt_i = flt_n
    /\ flt_pc' = "done"
    /\ UNCHANGED <<main_vars, copy_vars, part_vars, split_vars, run_vars,
                   load_vars, h5_vars, lk_vars, kp_vars, flt_i, flt_n, flt_keys, flt_dict,
                   flt_groups, meta_groups, meta_uuids, label_of>>

\* gui.py:70-90: the sessions as loaded, uuids and groups aligned with the
\* keys of data_dict.
InitFilter ==
    /\ MainIdle
    /\ train_data = <<>>
    /\ CopyIdle
    /\ PartIdle
    /\ SplitIdle
    /\ RunIdle
    /\ LoadIdle
    /\ H5Idle
    /\ LikesIdle
    /\ KappaIdle
    /\ flt_pc = "loop"
    /\ flt_i = 0
    /\ flt_keys \in {q \in SeqsOver(1..MaxKeys, MaxKeys) :
                        NoRepeat(q) /\ Len(q) >= 1}
    /\ flt_n = Len(flt_keys)
    /\ flt_dict = flt_keys
    /\ meta_uuids = flt_keys
    /\ meta_groups \in [1..Len(flt_keys) -> GroupLabels]
    /\ flt_groups = meta_groups
    /\ label_of = [k \in Range(flt_keys) |->
                      meta_groups[CHOOSE i \in 1..Len(flt_keys) : flt_keys[i] = k]]

NextFilter == FilterStep \/ FilterRaises \/ FilterDone

SpecFilter == InitFilter /\ [][NextFilter]_vars

\* The mapping, the key list and the metadata hold the same sessions in the
\* same order, each with its own group, and they are the sessions whose
\* group is not 'n/a'.
FilterAligned ==
    /\ flt_dict = flt_keys
    /\ meta_uuids = flt_keys
    /\ Len(meta_groups) = Len(flt_keys)
    /\ \A i \in 1..Len(flt_keys) : meta_groups[i] = label_of[flt_keys[i]]
    /\ Range(flt_keys) = {k \in DOMAIN label_of : label_of[k] # "n/a"}

\* C23: the removal loop ends without an index error and leaves the session
\* mapping, the key list, the uuids and the groups aligned and holding
\* exactly the sessions whose group is not 'n/a'.
C23_FilterKeepsAlignment ==
    /\ flt_pc # "error"
    /\ flt_pc = "done" => FilterAligned

\* C23 for inputs with at most one session of group 'n/a'.
C23_SingleRemovalAligned ==
    Cardinality({k \in DOMAIN label_of : label_of[k] = "n/a"}) <= 1
    => /\ flt_pc # "error"
       /\ flt_pc = "done" => FilterAligned

\* C23: one 'n/a' session of three has been removed.
C23_SingleRemovalWitness ==
    /\ flt_pc = "done"
    /\ flt_n = 3
    /\ Len(flt_keys) = 2
    /\ FilterAligned

\* C23: two 'n/a' sessions make all_keys[i] run past the end.
C23_IndexError ==
    /\ flt_pc = "error"
    /\ flt_groups = <<"n/a", "n/a">>

\* C23: the loop has ended with an 'n/a' session kept under another label.
C23_WrongSessionRemoved ==
    /\ flt_pc = "done"
    /\ flt_groups = <<"n/a", "n/a", "ctrl">>
    /\ flt_dict = <<3>>
    /\ label_of = <<"ctrl", "n/a", "n/a">>
    /\ meta_groups = <<"ctrl">>

\* ---------------------------------------------------------------------
\* The per-session log-likelihoods computed after training, with the group
\* each session is scored under.
\* ---------------------------------------------------------------------

SessionGroups == {"ctrl", "mut"}

\* arhmm.log_likelihood(v, group_id=g) for g, v in zip(groups, data.values()):
\* one call per pair, zip stopping at the shorter of the two.
ZipGroups(groups, data) ==
    [i \in 1..Min(Len(groups), Len(data)) |->
        [session |-> data[i], group |-> groups[i]]]

\* arhmm.log_likelihood(v) for v in data.values()
NoGroups(data) == [i \in 1..Len(data) |-> [session |-> data[i], group |-> "none"]]

\* util.py:144-167
get_loglikelihoods(data, groups, st) ==
    IF st THEN ZipGroups(groups, data) ELSE NoGroups(data)

\* The positions of keys that are, or are not, in the list.
PositionsIn(keys, list) == SelectSeq([i \in 1..Len(keys) |-> i],
                                     LAMBDA i : keys[i] \in Range(list))

PositionsOut(keys, list) == SelectSeq([i \in 1..Len(keys) |-> i],
                                      LAMBDA i : keys[i] \notin Range(list))

\* util.py:169-214, with groups given: the (train_g, hold_g) pair, None when
\* no training group is found, the plain list without a hold-out list.
get_session_groupings(data_groups, groups, keys, hol) ==
    IF hol.some
    THEN LET tp == PositionsOut(keys, hol.val)
             hp == PositionsIn(keys, hol.val)
         IN  IF Len(tp) # 0
             THEN [kind |-> "tuple",
                   train_g |-> [j \in 1..Len(tp) |-> data_groups[tp[j]]],
                   hold_g |-> [j \in 1..Len(hp) |-> data_groups[hp[j]]]]
             ELSE [kind |-> "None", train_g |-> <<>>, hold_g |-> <<>>]
    ELSE [kind |-> "list", train_g |-> groups, hold_g |-> <<>>]

\* gui.py:334-346: the groups of all sessions are zipped with the training
\* sessions, and again with the held-out sessions.
GuiLikelihoods ==
    /\ lk_pc = "start"
    /\ lk_entry = "gui"
    /\ ppc = "rebuilt"
    /\ train_ll' = IF separate_trans THEN ZipGroups(sess_groups, train_list)
                   ELSE NoGroups(train_list)
    /\ heldout_ll' = IF hold_out /\ separate_trans
                     THEN ZipGroups(sess_groups, hold_out_list.val)
                     ELSE IF hold_out THEN NoGroups(hold_out_list.val)
                     ELSE <<>>
    /\ lk_pc' = "scored"
    /\ UNCHANGED <<main_vars, copy_vars, part_vars, split_vars, run_vars,
                   load_vars, h5_vars, flt_vars, kp_vars, lk_entry, separate_trans,
                   sess_groups>>

\* util.get_session_groupings called with its four arguments and
\* util.get_loglikelihoods applied to its result as wrappers.py:165-180
\* applies it: groupings[0] for the training data, groupings[1] for the
\* held-out data.
UtilLikelihoods ==
    /\ lk_pc = "start"
    /\ lk_entry = "util"
    /\ ppc = "rebuilt"
    /\ LET groupings == get_session_groupings(sess_groups, sess_groups,
                                              all_keys, hold_out_list)
       IN  /\ groupings.kind = "tuple"
           /\ train_ll' = get_loglikelihoods(train_list, groupings.train_g,
                                             separate_trans)
           /\ heldout_ll' = IF hold_out
                            THEN get_loglikelihoods(hold_out_list.val,
                                                    groupings.hold_g,
                                                    separate_trans)
                            ELSE <<>>
    /\ lk_pc' = "scored"
    /\ UNCHANGED <<main_vars, copy_vars, part_vars, split_vars, run_vars,
                   load_vars, h5_vars, flt_vars, kp_vars, lk_entry, separate_trans,
                   sess_groups>>

\* groupings is None (no training group) or a plain list (no hold-out
\* list): groupings[0] is not the list of training groups.
UtilLikelihoodsRaises ==
    /\ lk_pc = "start"
    /\ lk_entry = "util"
    /\ ppc = "rebuilt"
    /\ get_session_groupings(sess_groups, sess_groups, all_keys,
                             hold_out_list).kind # "tuple"
    /\ lk_pc' = "error"
    /\ UNCHANGED <<main_vars, copy_vars, part_vars, split_vars, run_vars,
                   load_vars, h5_vars, flt_vars, kp_vars, lk_entry, separate_trans,
                   sess_groups, train_ll, heldout_ll>>

InitLikes ==
    /\ MainIdle
    /\ train_data = <<>>
    /\ CopyIdle
    /\ SplitIdle
    /\ RunIdle
    /\ LoadIdle
    /\ H5Idle
    /\ FilterIdle
    /\ KappaIdle
    /\ ppc = "start"
    /\ all_keys \in {q \in SeqsOver(1..MaxKeys, MaxKeys) : NoRepeat(q)}
    /\ nfolds \in 0..MaxFolds
    /\ hold_out_req \in BOOLEAN
    /\ hold_out = hold_out_req
    /\ hold_out_seed \in (-1)..MaxSeed
    /\ hold_out_list = None
    /\ train_list = <<>>
    /\ prun = 1
    /\ prior = NoPrior
    /\ lk_pc = "start"
    /\ lk_entry \in {"gui", "util"}
    /\ separate_trans \in BOOLEAN
    /\ sess_groups \in [1..Len(all_keys) -> SessionGroups]
    /\ train_ll = <<>>
    /\ heldout_ll = <<>>

NextLikes ==
    \/ PartitionSeeded
    \/ PartitionUnseeded
    \/ PartitionRaises
    \/ PartitionDisabled
    \/ Rebuild
    \/ GuiLikelihoods
    \/ UtilLikelihoods
    \/ UtilLikelihoodsRaises

SpecLikes == InitLikes /\ [][NextLikes]_vars

\* The group label the metadata holds for a session.
OwnGroup(k) == sess_groups[CHOOSE i \in 1..Len(all_keys) : all_keys[i] = k]

\* Every session of the data is scored once, under its own group.
ScoredUnderOwnGroup(ll, data) ==
    /\ Len(ll) = Len(data)
    /\ \A i \in 1..Len(ll) :
        ll[i].session = data[i] /\ ll[i].group = OwnGroup(data[i])

\* C24: with separate transition matrices every training session and every
\* held-out session is scored exactly once, under its own group label.
C24_OwnGroupLikelihoods ==
    lk_pc = "scored" /\ separate_trans
    => /\ ScoredUnderOwnGroup(train_ll, train_list)
       /\ hold_out => ScoredUnderOwnGroup(heldout_ll, hold_out_list.val)

\* C24 for the util functions, and for gui runs without hold-out.
C24_UtilOwnGroupLikelihoods ==
    lk_pc = "scored" /\ separate_trans /\ (lk_entry = "util" \/ ~hold_out)
    => /\ ScoredUnderOwnGroup(train_ll, train_list)
       /\ hold_out => ScoredUnderOwnGroup(heldout_ll, hold_out_list.val)

\* C24: the util functions have scored a partition of sessions of differing
\* groups.
C24_UtilWitness ==
    /\ lk_pc = "scored"
    /\ lk_entry = "util"
    /\ separate_trans
    /\ hold_out
    /\ Len(train_ll) = 2
    /\ train_ll[1].group # train_ll[2].group
    /\ Len(heldout_ll) = 1

\* C24: gui has scored the training session 2 under the group of session 1.
C24_GuiForeignGroup ==
    /\ lk_pc = "scored"
    /\ lk_entry = "gui"
    /\ separate_trans
    /\ all_keys = <<1, 2>>
    /\ sess_groups = <<"ctrl", "mut">>
    /\ train_list = <<2>>
    /\ train_ll = <<[session |-> 2, group |-> "ctrl"]>>

\* ---------------------------------------------------------------------
\* learn_model_wrapper after train_model has returned.
\* ---------------------------------------------------------------------

\* C25: in learn_model_wrapper, once train_model has returned, the run does
\* not end before save_dict has been reached.
C25_WrapperResultsPersisted ==
    (run_entry = "wrapper" /\ RunOver /\ "train_model" \in Range(trace))
    => "save_dict" \in Range(trace)

\* C25: an uninterrupted wrapper run without a hold-out list has trained and
\* ended with TypeError before save_dict.
C25_TrainedThenLost ==
    /\ run_entry = "wrapper"
    /\ ~stop
    /\ ~hold_out_list.some
    /\ cur = num_iter
    /\ trace = <<"load_pcs", "train_model">>
    /\ run_pc = "error"
    /\ run_err = "TypeError"
    /\ ~bundle.saved

\* ---------------------------------------------------------------------
\* The checkpoint path gui.learn_model_command hands to train_model.
\* ---------------------------------------------------------------------

\* C26: in gui.learn_model_command, after startup has fallen back from a
\* failed primary restore to the backup slot, the checkpoint path handed to
\* train_model is still the primary path.
C26_CheckpointTargetPrimary ==
    /\ entry = "gui"
    /\ restored_from = "backup"
    /\ pc = "ready" \/ InTraining
    => checkpoint_file = "primary"

\* C26 for runs that did not fall back.
C26_NoFallbackTargetPrimary ==
    /\ entry = "gui"
    /\ restored_from # "backup"
    /\ pc = "ready" \/ InTraining
    => checkpoint_file = "primary"

\* C26: a run without fallback is writing a checkpoint to the primary path.
C26_NoFallbackWitness ==
    /\ entry = "gui"
    /\ restored_from = "primary"
    /\ pc = "writing"
    /\ checkpoint_file = "primary"

\* C26: a periodic write is overwriting the backup slot the run recovered
\* from.
C26_BackupOverwritten ==
    /\ entry = "gui"
    /\ restored_from = "backup"
    /\ fell_back
    /\ pc = "writing"
    /\ checkpoint_file = "backup"
    /\ ~Restorable(disk.backup)

\* ---------------------------------------------------------------------
\* What save_arhmm_checkpoint and copy_model leave behind.
\* ---------------------------------------------------------------------

\* C27: after save_arhmm_checkpoint(filename, d) returns, d has the keys it
\* had and d['model'] is the live, data-bearing model the caller passed.
C27_ArgumentUnchanged ==
    cpc \in {"saved", "loaded"}
    => /\ ckpt_dict = LiveDict
       /\ ModelOf(ckpt_dict) = orig

\* C27: the keys of d are the ones it had.
C27_KeysUnchanged ==
    cpc \in {"saved", "loaded"} => ckpt_dict.keys = LiveDict.keys

\* C27: d['model'] is the data-less copy while the live model has its data.
C27_DictHoldsCopy ==
    /\ cpc = "saved"
    /\ Len(orig) = 2
    /\ ckpt_dict.model = "copy"
    /\ AllDetached(ModelOf(ckpt_dict))
    /\ model_obj = orig

\* C28: when the deep copy inside copy_model fails after the data has been
\* detached, every sub-state of the live model holds its original data when
\* the exception leaves copy_model.
C28_ExceptionSafe ==
    cpc = "raised" => model_obj = orig

\* C28: the live model has been left without data by a failed deep copy.
C28_LeftDetached ==
    /\ cpc = "raised"
    /\ Len(orig) = 2
    /\ AllBound(orig)
    /\ AllDetached(model_obj)

\* ------------------------------------------------- get_current_model (C29)
\* get_current_model was handed a non-empty list of checkpoints, every one
\* of them restorable, with use_checkpoint set, and has returned.
LoadedFromCheckpoints ==
    /\ entry = "wrapper"
    /\ pc = "ready"
    /\ use_checkpoint
    /\ all_checkpoints # {}
    /\ \A s \in all_checkpoints : Restorable(disk[s])

\* The greatest iteration number stored in any file of all_checkpoints.
HighestIter == CHOOSE i \in {disk[s].iter : s \in all_checkpoints} :
                   \A s \in all_checkpoints : disk[s].iter <= i

\* C29: with use_checkpoint set and a non-empty list of restorable
\* checkpoints, the model and the starting iteration get_current_model
\* returns come from the checkpoint storing the highest iteration number.
C29_LoadsHighestIteration ==
    LoadedFromCheckpoints
    => /\ itr = HighestIter
       /\ disk[restored_from].iter = HighestIter

\* C29: what the code does instead, the checkpoint with the greatest ctime
\* is the one loaded, whatever iteration it stores.
C29_LoadsNewestByCtime ==
    LoadedFromCheckpoints
    => /\ restored_from = latest_checkpoint
       /\ itr = disk[latest_checkpoint].iter
       /\ arhmm = load_arhmm_checkpoint(disk[latest_checkpoint], train_data).model

\* C29: the file changed last stores a lower iteration than the other one,
\* and it is the one resumed from.
C29_StaleNewestLoaded ==
    /\ LoadedFromCheckpoints
    /\ all_checkpoints = Slots
    /\ disk[latest_checkpoint].iter < HighestIter
    /\ itr < HighestIter

\* ------------------------------------ get_kappa_within_range (util.py:632)
MaxKappa == 3         \* min_kappa and max_kappa are -MaxKappa..MaxKappa
MaxModels == 4        \* n_models is 1..MaxModels

\* A number as numerator over denominator: an int k is Ratio(k, 1), the
\* float count_frames(data_dict) / 100 is Ratio(frames, 100).
Ratio(n, d) == [num |-> n, den |-> d]

\* int(a / n) for n >= 1: the quotient cut towards zero.
Trunc(a, n) == IF a >= 0 THEN a \div n ELSE 0 - ((0 - a) \div n)

\* list(range(start, finish, step)) for step # 0.
RECURSIVE range(_, _, _)
range(start, finish, step) ==
    IF (step > 0 /\ start < finish) \/ (step < 0 /\ start > finish)
    THEN <<start>> \o range(start + step, finish, step)
    ELSE <<>>

\* util.py:648-649: diff_kappa = min_kappa - max_kappa,
\* kappa_iter = int(diff_kappa / n_models).
kappa_iter(mn, mx, n) == Trunc(mn - mx, n)

\* util.py:652, for a step that is not zero.
get_kappa_within_range(mn, mx, n) == range(mn, mx, kappa_iter(mn, mx, n))

RECURSIVE Pow10(_)
Pow10(i) == IF i = 0 THEN 1 ELSE 10 * Pow10(i - 1)

\* util.py:684: [min_kappa * 10 ** i for i in range(n_models)].
FactorsOfTen(mn, n) == [i \in 1..n |-> Ratio(mn.num * Pow10(i - 1), mn.den)]

\* util.py:675-679: config_data['min_kappa'] after the default was filled in.
DefaultedMin == IF min_kappa.some THEN min_kappa
                ELSE Some(Ratio(nframes, 100))

\* get_kappa_within_range(min_kappa, max_kappa, n_models) returns.
GetKappaWithinRange ==
    /\ kp_pc = "start"
    /\ kp_call = "direct"
    /\ kappa_iter(min_kappa.val.num, max_kappa.val.num, n_models) # 0
    /\ kappas' = [i \in 1..Len(get_kappa_within_range(min_kappa.val.num,
                                   max_kappa.val.num, n_models)) |->
                     Ratio(get_kappa_within_range(min_kappa.val.num,
                               max_kappa.val.num, n_models)[i], 1)]
    /\ kp_pc' = "returned"
    /\ UNCHANGED <<main_vars, copy_vars, part_vars, split_vars, run_vars,
                   load_vars, h5_vars, flt_vars, lk_vars, kp_call, min_kappa,
                   max_kappa, n_models, nframes, kp_err>>

\* util.py:652: range() with a step of zero raises ValueError.
GetKappaWithinRangeRaises ==
    /\ kp_pc = "start"
    /\ kp_call = "direct"
    /\ kappa_iter(min_kappa.val.num, max_kappa.val.num, n_models) = 0
    /\ kp_err' = "ValueError"
    /\ kp_pc' = "raised"
    /\ UNCHANGED <<main_vars, copy_vars, part_vars, split_vars, run_vars,
                   load_vars, h5_vars, flt_vars, lk_vars, kp_call, min_kappa,
                   max_kappa, n_models, nframes, kappas>>

\* util.py:673-684: no max_kappa, the values grow by factors of ten from
\* min_kappa (by default the hundredth of the frame count).
GetScanRangeKappas ==
    /\ kp_pc = "start"
    /\ kp_call = "scan"
    /\ ~max_kappa.some
    /\ min_kappa' = DefaultedMin
    /\ kappas' = FactorsOfTen(DefaultedMin.val, n_models)
    /\ kp_pc' = "returned"
    /\ UNCHANGED <<main_vars, copy_vars, part_vars, split_vars, run_vars,
                   load_vars, h5_vars, flt_vars, lk_vars, kp_call, max_kappa,
                   n_models, nframes, kp_err>>

\* util.py:686 and 688: config_data['max_kappa', config_data['n_models']]
\* looks up the tuple ('max_kappa', n_models) in config_data, which has no
\* such key; get_kappa_within_range is never entered.
GetScanRangeKappasRaises ==
    /\ kp_pc = "start"
    /\ kp_call = "scan"
    /\ max_kappa.some
    /\ min_kappa' = DefaultedMin
    /\ kp_err' = "KeyError"
    /\ kp_pc' = "raised"
    /\ UNCHANGED <<main_vars, copy_vars, part_vars, split_vars, run_vars,
                   load_vars, h5_vars, flt_vars, lk_vars, kp_call, max_kappa,
                   n_models, nframes, kappas>>

KappaValues == {Some(Ratio(k, 1)) : k \in (0 - MaxKappa)..MaxKappa}

\* A direct call with integer arguments, or a scan over loaded data with
\* either limit possibly left out.
InitKappa ==
    /\ MainIdle
    /\ train_data = <<>>
    /\ CopyIdle
    /\ PartIdle
    /\ SplitIdle
    /\ RunIdle
    /\ LoadIdle
    /\ H5Idle
    /\ FilterIdle
    /\ LikesIdle
    /\ kp_pc = "start"
    /\ kp_call \in {"direct", "scan"}
    /\ n_models \in 1..MaxModels
    /\ IF kp_call = "direct"
       THEN /\ min_kappa \in KappaValues
            /\ max_kappa \in KappaValues
            /\ nframes = 0
       ELSE /\ min_kappa \in KappaValues \cup {None}
            /\ max_kappa \in KappaValues \cup {None}
            /\ nframes \in 1..MaxFrames
    /\ kappas = <<>>
    /\ kp_err = "none"

NextKappa ==
    \/ GetKappaWithinRange
    \/ GetKappaWithinRangeRaises
    \/ GetScanRangeKappas
    \/ GetScanRangeKappasRaises

SpecKappa == InitKappa /\ [][NextKappa]_vars

\* get_kappa_within_range was called with integers min_kappa < max_kappa
\* and n_models >= 1, and the call is over.
RangeCallOver ==
    /\ kp_call = "direct"
    /\ kp_pc \in {"returned", "raised"}
    /\ min_kappa.val.num < max_kappa.val.num
    /\ n_models >= 1

\* C30: for integers min_kappa < max_kappa and n_models >= 1,
\* get_kappa_within_range returns a list of exactly n_models values, each
\* >= min_kappa and <= max_kappa, and does not raise.
C30_KappaScanRange ==
    RangeCallOver
    => /\ kp_pc = "returned"
       /\ Len(kappas) = n_models
       /\ \A i \in 1..Len(kappas) :
             /\ kappas[i].den = 1
             /\ kappas[i].num >= min_kappa.val.num
             /\ kappas[i].num <= max_kappa.val.num

\* C30: what the code does instead for min_kappa < max_kappa: the step is
\* never positive, so the call raises or returns the empty list.
C30_EmptyOrRaises ==
    RangeCallOver
    => \/ kp_pc = "raised" /\ kp_err = "ValueError"
       \/ kp_pc = "returned" /\ kappas = <<>>

\* C30: a call with max_kappa - min_kappa >= n_models has returned no value.
C30_EmptyList ==
    /\ RangeCallOver
    /\ kp_pc = "returned"
    /\ min_kappa.val.num = 0
    /\ max_kappa.val.num = 3
    /\ n_models = 3
    /\ kappas = <<>>

\* C30: a call with max_kappa - min_kappa < n_models has raised.
C30_ZeroStep ==
    /\ RangeCallOver
    /\ kp_pc = "raised"
    /\ min_kappa.val.num = 1
    /\ max_kappa.val.num = 2
    /\ n_models = 2

====
